---------------------------- MODULE Spec2Model ----------------------------
(***************************************************************************)
(* Model of multi_vector_simulator/utils/data_parser.py: the conversion of *)
(* EPA (exchange) parameters to MVS (internal) parameters and back.        *)
(*                                                                         *)
(* Python dicts are mutable objects that the converters alias and change   *)
(* in place, so the model has a heap of dict objects; payloads hold        *)
(* references into it.  A dict is an insertion-ordered sequence of         *)
(* entries [k, v].                                                         *)
(*                                                                         *)
(* The module also models A0_initialization.py: get_user_input, which      *)
(* reads the command line, and check_output_directory, which prepares the  *)
(* output folder.                                                          *)
(***************************************************************************)
EXTENDS Integers, Sequences, FiniteSets, TLC

VARIABLES
    heap,     \* the dict objects: heap[ref] is the dict stored at ref
    epa,      \* the caller's EPA payload handed to convert_epa_params_to_mvs
    mvs,      \* the MVS payload: the caller's, or the one convert_epa_params_to_mvs returned
    out,      \* the payload the last convert_mvs_params_to_epa call returned
    status,   \* how the last call ended: "ok" or the name of the exception
    msg,      \* lines of the MissingParameterError message of the last call
    report,   \* missing_keys / extra_keys of the last convert_mvs_params_to_epa call
    pc,       \* position of the caller
    hist,     \* what the caller observed: payload values before and after each call
    forward,  \* the table of field names the module is loaded with (MAP_EPA_MVS)
    reverse,  \* the table derived from it when the module is loaded (MAP_MVS_EPA)
    argv,     \* sys.argv: the words of the command line, the program first
    fs,       \* the file system: fs[d] = [exists, entries] for the directory d
    user_input,    \* the locals of the last get_user_input call when it ended
    output_check   \* what the last check_output_directory call was given and did

vars == <<heap, epa, mvs, out, status, msg, report, pc, hist, forward, reverse,
          argv, fs, user_input, output_check>>

---------------------------------------------------------------------------
(* Bounds of the model *)

\* number of places where an input payload departs from the complete payload
MaxDev == 2
\* number of successive convert_mvs_params_to_epa calls on one payload
MaxCalls == 2
\* number of pairs of a table of field names other than MAP_EPA_MVS
MaxPairs == 3
\* number of words of the command line after the output folder
MaxOptions == 2

---------------------------------------------------------------------------
(* constants_json_strings *)

PROJECT_DATA == "project_data"
ECONOMIC_DATA == "economic_data"
SIMULATION_SETTINGS == "simulation_settings"
CONSTRAINTS == "constraints"
ENERGY_CONSUMPTION == "energyConsumption"
ENERGY_CONVERSION == "energyConversion"
ENERGY_PRODUCTION == "energyProduction"
ENERGY_STORAGE == "energyStorage"
ENERGY_BUSSES == "energyBusses"
ENERGY_PROVIDERS == "energyProviders"
UNIT == "unit"
VALUE == "value"
DATA == "data"
LABEL == "label"
OEMOF_ASSET_TYPE == "type_oemof"
ENERGY_VECTOR == "energyVector"
INFLOW_DIRECTION == "inflow_direction"
OUTFLOW_DIRECTION == "outflow_direction"
CONNECTED_CONSUMPTION_SOURCE == "connected_consumption_sources"
CONNECTED_FEEDIN_SINK == "connected_feedin_sink"
ENERGY_PRICE == "energy_price"
FEEDIN_TARIFF == "feedin_tariff"
PEAK_DEMAND_PRICING == "peak_demand_pricing"
PEAK_DEMAND_PRICING_PERIOD == "peak_demand_pricing_period"
RENEWABLE_SHARE_DSO == "renewable_share"
DEVELOPMENT_COSTS == "development_costs"
DISPATCH_PRICE == "dispatch_price"
DISPATCHABILITY == "dispatchable"
INSTALLED_CAP == "installedCap"
LIFETIME == "lifetime"
MAXIMUM_CAP == "maximumCap"
OPTIMIZE_CAP == "optimizeCap"
SPECIFIC_COSTS == "specific_costs"
SPECIFIC_COSTS_OM == "specific_costs_om"
TIMESERIES == "timeseries"
AGE_INSTALLED == "age_installed"
RENEWABLE_ASSET_BOOL == "renewableAsset"
EFFICIENCY == "efficiency"
INPUT_POWER == "input power"
OUTPUT_POWER == "output power"
STORAGE_CAPACITY == "storage capacity"
PROJECT_ID == "project_id"
PROJECT_NAME == "project_name"
SCENARIO_ID == "scenario_id"
SCENARIO_NAME == "scenario_name"
START_DATE == "start_date"
EVALUATED_PERIOD == "evaluated_period"
OUTPUT_LP_FILE == "output_lp_file"
MINIMAL_RENEWABLE_FACTOR == "minimal_renewable_factor"
FIX_COST == "fixcost"
KPI == "kpi"
TIMESTEP == "timestep"
KPI_SCALARS_DICT == "scalars"

---------------------------------------------------------------------------
(* Values of dict fields.  Every value is a record of one shape, so that   *)
(* any two values can be compared:                                         *)
(*   t   the Python type of the value                                      *)
(*   u   the string (t = "str") or the unit of a composite                 *)
(*   d   the number(s): a scalar as a one-element sequence                 *)
(*   ks  the keys of a nested mapping (t = "mapping")                      *)

Str(s) == [t |-> "str", u |-> s, d |-> <<>>, ks |-> <<>>]
Num(n) == [t |-> "num", u |-> "", d |-> <<n>>, ks |-> <<>>]
\* {UNIT: unit, VALUE: n}
ValueUnit(unit, n) == [t |-> "value_unit", u |-> unit, d |-> <<n>>, ks |-> <<>>]
\* the bare booleans True / False
Bool(b) == [t |-> "bool", u |-> "", d |-> <<IF b THEN 1 ELSE 0>>, ks |-> <<>>]
\* {UNIT: unit, VALUE: True / False}
BoolUnit(unit, b) == [t |-> "bool_unit", u |-> unit, d |-> <<IF b THEN 1 ELSE 0>>, ks |-> <<>>]
\* {UNIT: unit, DATA: [..]}: the EPA form of a timeseries
TimeseriesDict(unit, data) == [t |-> "unit_data", u |-> unit, d |-> data, ks |-> <<>>]
\* a plain Python list of numbers
List(data) == [t |-> "list", u |-> "", d |-> data, ks |-> <<>>]
\* a list of strings
StrList(keys) == [t |-> "str_list", u |-> "", d |-> <<>>, ks |-> keys]
\* a pandas.Series of numbers
Series(data) == [t |-> "series", u |-> "", d |-> data, ks |-> <<>>]
\* a nested dict, of which only the keys matter here
Mapping(keys) == [t |-> "mapping", u |-> "", d |-> <<>>, ks |-> keys]
\* the value of a field that is not there
NoValue == [t |-> "none", u |-> "", d |-> <<>>, ks |-> <<>>]

---------------------------------------------------------------------------
(* Python dict operations on a sequence of entries [k, v] *)

Range(s) == {s[i] : i \in DOMAIN s}

\* list(d.keys())
Keys(dict) == [i \in DOMAIN dict |-> dict[i].k]

\* k in d
Has(dict, key) == \E i \in DOMAIN dict : dict[i].k = key

IndexOf(dict, key) == CHOOSE i \in DOMAIN dict : dict[i].k = key

\* d[k], for a key that is there
Get(dict, key) == dict[IndexOf(dict, key)].v

\* d.pop(k), for a key that is there: the dict without the entry
Pop(dict, key) ==
    LET i == IndexOf(dict, key)
    IN  SubSeq(dict, 1, i - 1) \o SubSeq(dict, i + 1, Len(dict))

\* d[k] = v: a present key keeps its place, a new key goes last
Put(dict, key, val) ==
    IF Has(dict, key)
    THEN [dict EXCEPT ![IndexOf(dict, key)].v = val]
    ELSE Append(dict, [k |-> key, v |-> val])

\* x in list
InList(list, x) == \E i \in DOMAIN list : list[i] = x

---------------------------------------------------------------------------
(* The field mapping and the fields EPA expects *)

MAP_EPA_MVS ==
    << [k |-> "economic_data", v |-> ECONOMIC_DATA],
       [k |-> "energy_providers", v |-> ENERGY_PROVIDERS],
       [k |-> "energy_busses", v |-> ENERGY_BUSSES],
       [k |-> "energy_consumption", v |-> ENERGY_CONSUMPTION],
       [k |-> "energy_conversion", v |-> ENERGY_CONVERSION],
       [k |-> "energy_production", v |-> ENERGY_PRODUCTION],
       [k |-> "energy_storage", v |-> ENERGY_STORAGE],
       [k |-> "project_data", v |-> PROJECT_DATA],
       [k |-> "simulation_settings", v |-> SIMULATION_SETTINGS],
       [k |-> "energy_vector", v |-> ENERGY_VECTOR],
       [k |-> "installed_capacity", v |-> INSTALLED_CAP],
       [k |-> "optimize_capacity", v |-> OPTIMIZE_CAP],
       [k |-> "maximum_capacity", v |-> MAXIMUM_CAP],
       [k |-> "input_timeseries", v |-> TIMESERIES],
       [k |-> "constraints", v |-> CONSTRAINTS],
       [k |-> "renewable_asset", v |-> RENEWABLE_ASSET_BOOL],
       [k |-> KPI, v |-> KPI],
       [k |-> FIX_COST, v |-> FIX_COST],
       [k |-> "time_step", v |-> TIMESTEP] >>

\* {value: key for (key, value) in table.items()}
\* Invert with the value written for the key ({value: value for ...})
RECURSIVE InvertValueOnly(_, _)
InvertValueOnly(table, acc) ==
    IF table = <<>> THEN acc
    ELSE InvertValueOnly(Tail(table), Put(acc, Head(table).v, Head(table).v))

\* {value: key for (key, value) in table.items()}
RECURSIVE Invert(_, _)
Invert(table, acc) ==
    IF table = <<>> THEN acc
    ELSE Invert(Tail(table), Put(acc, Head(table).v, Head(table).k))

MAP_MVS_EPA == Invert(MAP_EPA_MVS, <<>>)

EPA_PARAM_KEYS ==
    << [k |-> PROJECT_DATA, v |-> <<PROJECT_ID, PROJECT_NAME, SCENARIO_ID, SCENARIO_NAME>>],
       [k |-> SIMULATION_SETTINGS, v |-> <<START_DATE, EVALUATED_PERIOD, TIMESTEP>>],
       [k |-> CONSTRAINTS, v |-> <<>>],
       [k |-> KPI, v |-> <<KPI_SCALARS_DICT>>],
       [k |-> FIX_COST, v |-> <<>>] >>

EPA_ASSET_KEYS ==
    << [k |-> ENERGY_PROVIDERS, v |->
          << "asset_type", LABEL, OEMOF_ASSET_TYPE, "energy_vector", INFLOW_DIRECTION,
             OUTFLOW_DIRECTION, CONNECTED_CONSUMPTION_SOURCE, CONNECTED_FEEDIN_SINK,
             DEVELOPMENT_COSTS, DISPATCH_PRICE, ENERGY_PRICE, FEEDIN_TARIFF,
             "installed_capacity", LIFETIME, "optimize_capacity", PEAK_DEMAND_PRICING,
             PEAK_DEMAND_PRICING_PERIOD, RENEWABLE_SHARE_DSO, SPECIFIC_COSTS,
             SPECIFIC_COSTS_OM, UNIT >>],
       [k |-> ENERGY_CONSUMPTION, v |->
          << "asset_type", LABEL, INFLOW_DIRECTION, OEMOF_ASSET_TYPE, DEVELOPMENT_COSTS,
             DISPATCH_PRICE, "installed_capacity", LIFETIME, "optimize_capacity",
             SPECIFIC_COSTS, SPECIFIC_COSTS_OM, "input_timeseries", "energy_vector" >>],
       [k |-> ENERGY_CONVERSION, v |->
          << "asset_type", LABEL, "energy_vector", OEMOF_ASSET_TYPE, INFLOW_DIRECTION,
             OUTFLOW_DIRECTION, OUTFLOW_DIRECTION, AGE_INSTALLED, DEVELOPMENT_COSTS,
             DISPATCH_PRICE, EFFICIENCY, "installed_capacity", LIFETIME,
             "maximum_capacity", "optimize_capacity", SPECIFIC_COSTS, SPECIFIC_COSTS_OM >>],
       [k |-> ENERGY_PRODUCTION, v |->
          << "asset_type", LABEL, OEMOF_ASSET_TYPE, OUTFLOW_DIRECTION, OUTFLOW_DIRECTION,
             DEVELOPMENT_COSTS, DISPATCH_PRICE, DISPATCHABILITY, "installed_capacity",
             LIFETIME, "maximum_capacity", "optimize_capacity", SPECIFIC_COSTS,
             SPECIFIC_COSTS_OM, "input_timeseries", AGE_INSTALLED, "renewable_asset",
             "energy_vector" >>],
       [k |-> ENERGY_STORAGE, v |->
          << "asset_type", LABEL, "energy_vector", INFLOW_DIRECTION, OUTFLOW_DIRECTION,
             OUTFLOW_DIRECTION, OEMOF_ASSET_TYPE, INPUT_POWER, OUTPUT_POWER,
             STORAGE_CAPACITY, "optimize_capacity", "input_timeseries" >>],
       [k |-> ENERGY_BUSSES, v |-> << LABEL, "assets", "energy_vector" >>] >>

\* the parameter groups convert_epa_params_to_mvs looks for, in its order
MVS_PARAM_GROUPS ==
    <<PROJECT_DATA, ECONOMIC_DATA, SIMULATION_SETTINGS, CONSTRAINTS, FIX_COST>>

\* the asset groups convert_epa_params_to_mvs looks for, in its order
MVS_ASSET_GROUPS ==
    <<ENERGY_CONSUMPTION, ENERGY_CONVERSION, ENERGY_PRODUCTION, ENERGY_STORAGE,
      ENERGY_BUSSES, ENERGY_PROVIDERS>>

---------------------------------------------------------------------------
(* Payloads.  A payload is [params, assets]:                               *)
(*   params  dict: group name -> [kind, ref]; kind "dict" is a dict object *)
(*           heap[ref], kind "tuple" a 1-tuple holding the dict heap[ref]  *)
(*   assets  dict: asset group name -> the assets, each [kind, ref, raw]:  *)
(*           kind "asset" is the dict object heap[ref], kind "raw" is a    *)
(*           value that is no dict.  In an EPA payload the assets of a     *)
(*           group are a list (a sequence of them), in an MVS payload a    *)
(*           dict: label -> asset.                                         *)

NoPayload == [params |-> <<>>, assets |-> <<>>]

DictRef(r) == [kind |-> "dict", ref |-> r]
TupleRef(r) == [kind |-> "tuple", ref |-> r]
AssetRef(r) == [kind |-> "asset", ref |-> r, raw |-> NoValue]
RawValue(val) == [kind |-> "raw", ref |-> 0, raw |-> val]

\* a new dict object
Alloc(h, dict) == Append(h, dict)
NewRef(h) == Len(h) + 1

\* for k in keys_list: if k in table: d[table[k]] = d.pop(k)
RECURSIVE RenameKeys(_, _, _)
RenameKeys(dict, keys, table) ==
    IF keys = <<>> THEN dict
    ELSE LET k == Head(keys)
             renamed == IF Has(table, k)
                        THEN Put(Pop(dict, k), Get(table, k), Get(dict, k))
                        ELSE dict
         IN  RenameKeys(renamed, Tail(keys), table)

---------------------------------------------------------------------------
(* convert_epa_params_to_mvs.  The conversion is computed on a record      *)
(* c = [heap, params, assets, err]: the heap as changed so far, the        *)
(* dict_values built so far, and the exception raised, "" for none.        *)

Raise(c, exception) == [c EXCEPT !.err = exception]

\* the loop over the parameter groups
RECURSIVE EpaParamGroups(_, _, _)
EpaParamGroups(c, epa_dict, groups) ==
    IF groups = <<>> \/ c.err # "" THEN c
    ELSE LET param_group == Head(groups)
             epa_name == Get(MAP_MVS_EPA, param_group)
             next ==
                IF Has(epa_dict.params, epa_name)
                THEN LET g == Get(epa_dict.params, epa_name)
                         assigned == [c EXCEPT !.params = Put(@, param_group, g)]
                     IN  IF g.kind # "dict"
                         THEN Raise(assigned, "AttributeError")
                         ELSE [assigned EXCEPT !.heap[g.ref] =
                                  RenameKeys(@, Keys(@), MAP_EPA_MVS)]
                ELSE c
         IN  EpaParamGroups(next, epa_dict, Tail(groups))

\* EpaAsset with the label taken out of the record (asset_label = asset.pop(LABEL))
EpaAssetLabelPopped(a, asset) ==
    IF ~Has(a.heap[asset.ref], LABEL)
    THEN [a EXCEPT !.err = "KeyError"]
    ELSE [a EXCEPT !.dict_asset = Put(@, Get(a.heap[asset.ref], LABEL).u, asset),
                   !.heap[asset.ref] = RenameKeys(Pop(@, LABEL), Keys(Pop(@, LABEL)),
                                                  MAP_EPA_MVS)]

\* one asset of the list: asset_label = asset[LABEL]; dict_asset[asset_label] = asset,
\* and the fields of the asset renamed; a = [heap, dict_asset, err]
EpaAsset(a, asset) ==
    IF ~Has(a.heap[asset.ref], LABEL)
    THEN [a EXCEPT !.err = "KeyError"]
    ELSE [a EXCEPT !.dict_asset = Put(@, Get(a.heap[asset.ref], LABEL).u, asset),
                   !.heap[asset.ref] = RenameKeys(@, Keys(@), MAP_EPA_MVS)]

\* the loop over the assets of one group
RECURSIVE EpaAssetList(_, _)
EpaAssetList(a, list) ==
    IF list = <<>> \/ a.err # "" THEN a
    ELSE EpaAssetList(EpaAsset(a, Head(list)), Tail(list))

\* move the unit outside the timeseries dict
MoveUnitOutside(a) ==
    IF a.err = "" /\ Has(a.dict_asset, TIMESERIES)
    THEN LET target == Get(a.dict_asset, TIMESERIES)
         IN  IF ~Has(a.heap[target.ref], UNIT)
             THEN [a EXCEPT !.err = "KeyError"]
             ELSE [a EXCEPT !.heap[target.ref] = Pop(@, UNIT),
                            !.dict_asset = Put(@, UNIT,
                                               RawValue(Get(a.heap[target.ref], UNIT)))]
    ELSE a

\* dict_values[asset_group] = dict_asset, unless an exception was raised on the way
StoreAssetDict(c, asset_group, a) ==
    IF a.err # ""
    THEN [c EXCEPT !.heap = a.heap, !.err = a.err]
    ELSE [c EXCEPT !.heap = a.heap, !.assets = Put(@, asset_group, a.dict_asset)]

\* the loop over the asset groups
RECURSIVE EpaAssetGroups(_, _, _)
EpaAssetGroups(c, epa_dict, groups) ==
    IF groups = <<>> \/ c.err # "" THEN c
    ELSE LET asset_group == Head(groups)
             epa_name == Get(MAP_MVS_EPA, asset_group)
             next ==
                IF Has(epa_dict.assets, epa_name)
                THEN StoreAssetDict(c, asset_group,
                        MoveUnitOutside(
                           EpaAssetList([heap |-> c.heap, dict_asset |-> <<>>, err |-> ""],
                                        Get(epa_dict.assets, epa_name))))
                ELSE c
         IN  EpaAssetGroups(next, epa_dict, Tail(groups))

---------------------------------------------------------------------------
(* compare_input_parameters_with_reference: the parameters the MVS         *)
(* requires against the parameters present.  The missing-parameter report  *)
(* is a dict: group -> [none, fields], the list of the fields missing in   *)
(* the group, or None (none = TRUE).                                       *)

\* the required fields of each group; None for a group whose fields are free
REQUIRED_PARAMETERS ==
    << [k |-> PROJECT_DATA, v |-> [none |-> FALSE, fields |-> Get(EPA_PARAM_KEYS, PROJECT_DATA)]],
       [k |-> ECONOMIC_DATA, v |-> [none |-> FALSE,
             fields |-> <<"currency", "discount_factor", "project_duration", "tax">>]],
       [k |-> SIMULATION_SETTINGS, v |-> [none |-> FALSE,
             fields |-> <<START_DATE, EVALUATED_PERIOD, TIMESTEP, OUTPUT_LP_FILE>>]],
       [k |-> CONSTRAINTS, v |-> [none |-> FALSE, fields |-> <<MINIMAL_RENEWABLE_FACTOR>>]],
       [k |-> FIX_COST, v |-> [none |-> TRUE, fields |-> <<>>]],
       [k |-> ENERGY_CONSUMPTION, v |-> [none |-> TRUE, fields |-> <<>>]],
       [k |-> ENERGY_CONVERSION, v |-> [none |-> TRUE, fields |-> <<>>]],
       [k |-> ENERGY_PRODUCTION, v |-> [none |-> TRUE, fields |-> <<>>]],
       [k |-> ENERGY_STORAGE, v |-> [none |-> TRUE, fields |-> <<>>]],
       [k |-> ENERGY_BUSSES, v |-> [none |-> TRUE, fields |-> <<>>]],
       [k |-> ENERGY_PROVIDERS, v |-> [none |-> TRUE, fields |-> <<>>]] >>

\* the fields that are not keys of the dict, in order
LackingFields(dict, fields) == SelectSeq(fields, LAMBDA f : ~Has(dict, f))

\* The report of missing parameters of dict_values (c.params, c.assets).  How the
\* report shows a group that is absent altogether is not fixed: a list of its
\* required fields, or None (absent_as_none), which the converter also handles.
RECURSIVE MissingParameters(_, _, _)
MissingParameters(c, required, absent_as_none) ==
    IF required = <<>> THEN <<>>
    ELSE LET group == Head(required).k
             req == Head(required).v
             rest == MissingParameters(c, Tail(required), absent_as_none)
         IN  IF ~Has(c.params, group) /\ ~Has(c.assets, group)
             THEN <<[k |-> group,
                     v |-> [none |-> req.none \/ absent_as_none,
                            fields |-> IF req.none \/ absent_as_none THEN <<>> ELSE req.fields]]>>
                  \o rest
             ELSE IF req.none \/ ~Has(c.params, group) THEN rest
             ELSE LET gone == LackingFields(c.heap[Get(c.params, group).ref], req.fields)
                  IN  IF gone = <<>> THEN rest
                      ELSE <<[k |-> group, v |-> [none |-> FALSE, fields |-> gone]]>> \o rest

compare_input_parameters_with_reference(c, absent_as_none) ==
    MissingParameters(c, REQUIRED_PARAMETERS, absent_as_none)

---------------------------------------------------------------------------
(* The treatment of the missing parameters in convert_epa_params_to_mvs;   *)
(* f = [heap, params, assets, err, compared, d, msg]: compared is the      *)
(* report of the comparison, d what is left of it.                         *)

\* this should not be missing on EPA side, but in case it is take default value 0
DefaultConstraints(f) ==
    IF f.err = "" /\ Has(f.d, CONSTRAINTS)
    THEN [f EXCEPT !.heap = Alloc(@, <<[k |-> MINIMAL_RENEWABLE_FACTOR,
                                         v |-> ValueUnit("factor", 0)]>>),
                   !.params = Put(@, CONSTRAINTS, TupleRef(NewRef(f.heap))),
                   !.d = Pop(@, CONSTRAINTS)]
    ELSE f

\* DefaultOutputLpFile without the test len(d[SIMULATION_SETTINGS]) == 1
DefaultOutputLpFileAnyGap(f) ==
    IF f.err = "" /\ Has(f.d, SIMULATION_SETTINGS)
    THEN LET lacking == Get(f.d, SIMULATION_SETTINGS)
         IN  IF lacking.none
             THEN Raise(f, "TypeError")
             ELSE IF InList(lacking.fields, OUTPUT_LP_FILE)
             THEN IF ~Has(f.params, SIMULATION_SETTINGS)
                  THEN Raise(f, "KeyError")
                  ELSE [f EXCEPT !.heap[Get(f.params, SIMULATION_SETTINGS).ref] =
                                     Put(@, OUTPUT_LP_FILE, BoolUnit("bool", FALSE)),
                                 !.d = Pop(@, SIMULATION_SETTINGS)]
             ELSE f
    ELSE f

\* DefaultOutputLpFile with the default VALUE: True
DefaultOutputLpFileTrue(f) ==
    IF f.err = "" /\ Has(f.d, SIMULATION_SETTINGS)
    THEN LET lacking == Get(f.d, SIMULATION_SETTINGS)
         IN  IF lacking.none
             THEN Raise(f, "TypeError")
             ELSE IF InList(lacking.fields, OUTPUT_LP_FILE) /\ Len(lacking.fields) = 1
             THEN IF ~Has(f.params, SIMULATION_SETTINGS)
                  THEN Raise(f, "KeyError")
                  ELSE [f EXCEPT !.heap[Get(f.params, SIMULATION_SETTINGS).ref] =
                                     Put(@, OUTPUT_LP_FILE, BoolUnit("bool", TRUE)),
                                 !.d = Pop(@, SIMULATION_SETTINGS)]
             ELSE f
    ELSE f

DefaultOutputLpFile(f) ==
    IF f.err = "" /\ Has(f.d, SIMULATION_SETTINGS)
    THEN LET lacking == Get(f.d, SIMULATION_SETTINGS)
         IN  IF lacking.none
             THEN Raise(f, "TypeError")
             ELSE IF InList(lacking.fields, OUTPUT_LP_FILE) /\ Len(lacking.fields) = 1
             THEN IF ~Has(f.params, SIMULATION_SETTINGS)
                  THEN Raise(f, "KeyError")
                  ELSE [f EXCEPT !.heap[Get(f.params, SIMULATION_SETTINGS).ref] =
                                     Put(@, OUTPUT_LP_FILE, BoolUnit("bool", FALSE)),
                                 !.d = Pop(@, SIMULATION_SETTINGS)]
             ELSE f
    ELSE f

\* DefaultFixCost without d.pop(FIX_COST)
DefaultFixCostLeft(f) ==
    IF f.err = "" /\ Has(f.d, FIX_COST)
    THEN [f EXCEPT !.heap = Alloc(@, <<>>),
                   !.params = Put(@, FIX_COST, DictRef(NewRef(f.heap)))]
    ELSE f

DefaultFixCost(f) ==
    IF f.err = "" /\ Has(f.d, FIX_COST)
    THEN [f EXCEPT !.heap = Alloc(@, <<>>),
                   !.params = Put(@, FIX_COST, DictRef(NewRef(f.heap))),
                   !.d = Pop(@, FIX_COST)]
    ELSE f

\* lines of the error message
TextLine(s) == [kind |-> "text", s |-> s]
GroupLine(group) == [kind |-> "group", s |-> group]
ParameterLine(field) == [kind |-> "parameter", s |-> field]

ParameterLines(fields) == [i \in DOMAIN fields |-> ParameterLine(fields[i])]

RECURSIVE MissingLines(_)
MissingLines(d) ==
    IF d = <<>> THEN <<>>
    ELSE <<GroupLine(Head(d).k)>>
         \o (IF Head(d).v.none THEN <<>> ELSE ParameterLines(Head(d).v.fields))
         \o MissingLines(Tail(d))

ErrorHeader ==
    <<TextLine(" "), TextLine(" "),
      TextLine("The following parameter groups and sub parameters are missing from input parameters:")>>

RaiseMissing(f) ==
    IF f.err = "" /\ Len(f.d) > 0
    THEN [f EXCEPT !.err = "MissingParameterError", !.msg = ErrorHeader \o MissingLines(f.d)]
    ELSE f

\* comparison = compare_input_parameters_with_reference(dict_values) and what follows
\* it, on the dict_values c
Compared(c, comparison) ==
    [heap |-> c.heap, params |-> c.params, assets |-> c.assets, err |-> c.err,
     compared |-> comparison, d |-> comparison, msg |-> <<>>]

TreatMissing(c, absent_as_none) ==
    RaiseMissing(DefaultFixCost(DefaultOutputLpFile(DefaultConstraints(
        Compared(c, IF c.err = ""
                    THEN compare_input_parameters_with_reference(c, absent_as_none)
                    ELSE <<>>)))))

\* the result: [heap, params, assets, err, compared, d, msg], dict_values being
\* (params, assets)
convert_epa_params_to_mvs(h, epa_dict, absent_as_none) ==
    TreatMissing(
        EpaAssetGroups(
            EpaParamGroups([heap |-> h, params |-> <<>>, assets |-> <<>>, err |-> ""],
                           epa_dict, MVS_PARAM_GROUPS),
            epa_dict, MVS_ASSET_GROUPS),
        absent_as_none)

---------------------------------------------------------------------------
(* convert_mvs_params_to_epa.  The conversion is computed on a record      *)
(* c = [heap, params, assets, err]: the heap as changed so far, the        *)
(* epa_dict built so far, and the exception raised, "" for none.           *)

\* param_group in (CONSTRAINTS): (CONSTRAINTS) is the string itself, so this is a
\* substring test; of the group names of EPA_PARAM_KEYS only CONSTRAINTS passes it
InConstraints(param_group) == param_group = CONSTRAINTS

\* the loop over the fields of a parameter group: ditch or rename
RECURSIVE KeepExpectedParams(_, _, _, _)
KeepExpectedParams(dict, keys, expected, param_group) ==
    IF keys = <<>> THEN dict
    ELSE LET k == Head(keys)
             next == IF ~InList(expected, k) /\ ~InConstraints(param_group)
                     THEN Pop(dict, k)
                     ELSE IF Has(MAP_MVS_EPA, k)
                          THEN Put(Pop(dict, k), Get(MAP_MVS_EPA, k), Get(dict, k))
                          ELSE dict
         IN  KeepExpectedParams(next, Tail(keys), expected, param_group)

\* the loop over the parameter groups; groups are entries of EPA_PARAM_KEYS
RECURSIVE MvsParamGroups(_, _, _)
MvsParamGroups(c, mvs_dict, groups) ==
    IF groups = <<>> \/ c.err # "" THEN c
    ELSE LET param_group == Head(groups).k
             param_group_epa == Get(MAP_MVS_EPA, param_group)
             next ==
                IF ~Has(mvs_dict.params, param_group)
                THEN Raise(c, "KeyError")
                ELSE LET g == Get(mvs_dict.params, param_group)
                         assigned == [c EXCEPT !.params = Put(@, param_group_epa, g)]
                     IN  IF g.kind # "dict"
                         THEN Raise(assigned, "AttributeError")
                         ELSE [assigned EXCEPT !.heap[g.ref] =
                                  KeepExpectedParams(@, Keys(@), Head(groups).v, param_group)]
         IN  MvsParamGroups(next, mvs_dict, Tail(groups))

\* The labels are strings; the model knows them by their parts.
LabelParts(asset_label) ==
    CASE asset_label = "bat_excess" -> <<"bat", "_excess">>
      [] asset_label = "dso_sink" -> <<"dso", "_sink">>
      [] asset_label = "heat_sink_pump" -> <<"heat", "_sink", "_pump">>
      [] OTHER -> <<asset_label>>

\* part in asset_label
InLabel(part, asset_label) == InList(LabelParts(asset_label), part)

\* MvsAssetFields without the test asset_group == ENERGY_BUSSES
RECURSIVE MvsAssetFieldsAnyGroup(_, _, _)
MvsAssetFieldsAnyGroup(a, keys, asset_group) ==
    IF keys = <<>> \/ a.err # "" THEN a
    ELSE LET k == Head(keys)
             renamed == IF Has(MAP_MVS_EPA, k)
                        THEN Put(Pop(a.fields, k), Get(MAP_MVS_EPA, k), Get(a.fields, k))
                        ELSE a.fields
             next == IF k = "Asset_list"
                     THEN IF Get(renamed, k).t # "mapping"
                          THEN [fields |-> Pop(renamed, k), err |-> "AttributeError"]
                          ELSE [fields |-> Put(Pop(renamed, k), "assets",
                                               StrList(Get(renamed, k).ks)),
                                err |-> ""]
                     ELSE [fields |-> renamed, err |-> ""]
         IN  MvsAssetFieldsAnyGroup(next, Tail(keys), asset_group)

\* the loop over the fields of an asset; a = [fields, err]
RECURSIVE MvsAssetFields(_, _, _)
MvsAssetFields(a, keys, asset_group) ==
    IF keys = <<>> \/ a.err # "" THEN a
    ELSE LET k == Head(keys)
             renamed == IF Has(MAP_MVS_EPA, k)
                        THEN Put(Pop(a.fields, k), Get(MAP_MVS_EPA, k), Get(a.fields, k))
                        ELSE a.fields
             next == IF asset_group = ENERGY_BUSSES /\ k = "Asset_list"
                     THEN IF Get(renamed, k).t # "mapping"
                          THEN [fields |-> Pop(renamed, k), err |-> "AttributeError"]
                          ELSE [fields |-> Put(Pop(renamed, k), "assets",
                                               StrList(Get(renamed, k).ks)),
                                err |-> ""]
                     ELSE [fields |-> renamed, err |-> ""]
         IN  MvsAssetFields(next, Tail(keys), asset_group)

\* convert pandas.Series to a timeseries dict with key DATA value list,
\* move the unit inside the timeseries dict under key UNIT; a = [fields, err]
MoveUnitInside(a) ==
    LET name == Get(MAP_MVS_EPA, TIMESERIES)
    IN  IF a.err = "" /\ Has(a.fields, name)
        THEN IF Get(a.fields, name).t # "series"
             THEN [a EXCEPT !.err = "AttributeError"]
             ELSE IF ~Has(a.fields, UNIT)
             THEN [a EXCEPT !.err = "KeyError"]
             ELSE [a EXCEPT !.fields =
                      Put(Pop(a.fields, UNIT), name,
                          TimeseriesDict(Get(a.fields, UNIT).u, Get(a.fields, name).d))]
        ELSE a

\* Excluded with the test for "_sink" left out
ExcludedExcessOnly(asset_label) == InLabel("_excess", asset_label)

\* the assets with these marks in their label are not passed to EPA
Excluded(asset_label) == InLabel("_excess", asset_label) \/ InLabel("_sink", asset_label)

\* the fields of an asset, the label among them, renamed
RenameAssetFields(labelled, asset_group) ==
    MvsAssetFields([fields |-> labelled, err |-> ""], Keys(labelled), asset_group)

\* ListAsset with the asset put at the head of the list (list_asset.insert(0, asset))
ListAssetFirst(l, asset_label, asset, a) ==
    [heap |-> [l.heap EXCEPT ![asset.ref] = a.fields],
     list_asset |-> IF a.err = "" /\ ~Excluded(asset_label)
                    THEN <<asset>> \o l.list_asset
                    ELSE l.list_asset,
     err |-> a.err]

\* the asset is changed to a = [fields, err] and appended to the list
ListAsset(l, asset_label, asset, a) ==
    [heap |-> [l.heap EXCEPT ![asset.ref] = a.fields],
     list_asset |-> IF a.err = "" /\ ~Excluded(asset_label)
                    THEN Append(l.list_asset, asset)
                    ELSE l.list_asset,
     err |-> a.err]

\* the loop over the assets of a group; entries of the dict label -> asset;
\* l = [heap, list_asset, err]
RECURSIVE MvsAssetDict(_, _, _)
MvsAssetDict(l, entries, asset_group) ==
    IF entries = <<>> \/ l.err # "" THEN l
    ELSE LET asset_label == Head(entries).k
             asset == Head(entries).v
         IN  IF asset.kind # "asset"
             THEN [l EXCEPT !.err = "TypeError"]
             ELSE MvsAssetDict(
                     ListAsset(l, asset_label, asset,
                               MoveUnitInside(
                                  RenameAssetFields(
                                     Put(l.heap[asset.ref], LABEL, Str(asset_label)),
                                     asset_group))),
                     Tail(entries), asset_group)

\* epa_dict[MAP_MVS_EPA[asset_group]] = list_asset, unless an exception was raised
StoreAssetList(c, asset_group, l) ==
    IF l.err # ""
    THEN [c EXCEPT !.heap = l.heap, !.err = l.err]
    ELSE [c EXCEPT !.heap = l.heap,
                   !.assets = Put(@, Get(MAP_MVS_EPA, asset_group), l.list_asset)]

\* the loop over the asset groups; groups are entries of EPA_ASSET_KEYS
RECURSIVE MvsAssetGroups(_, _, _)
MvsAssetGroups(c, mvs_dict, groups) ==
    IF groups = <<>> \/ c.err # "" THEN c
    ELSE LET asset_group == Head(groups).k
             next ==
                IF ~Has(mvs_dict.assets, asset_group)
                THEN Raise(c, "KeyError")
                ELSE StoreAssetList(c, asset_group,
                        MvsAssetDict([heap |-> c.heap, list_asset |-> <<>>, err |-> ""],
                                     Get(mvs_dict.assets, asset_group), asset_group))
         IN  MvsAssetGroups(next, mvs_dict, Tail(groups))

---------------------------------------------------------------------------
(* The extra and the missing keys of the assets passed to EPA.             *)
(* r = [heap, extra, missing]: extra and missing are the lists of          *)
(* (label, key) of the asset group at hand.                                *)

\* (asset[LABEL], k) for every k of keys
Traces(fields, keys) == [i \in DOMAIN keys |-> <<Get(fields, LABEL).u, keys[i]>>]

\* DropExtraKeys that keeps no trace of the fields it removes
DropExtraKeysSilent(r, ref, expected) ==
    [r EXCEPT !.heap[ref] = SelectSeq(@, LAMBDA e : InList(expected, e.k))]

\* loop over the actual fields of the asset: every field not listed under the
\* asset_group in EPA_ASSET_KEYS is removed and a trace of it is kept.  LABEL is
\* listed in every group, so asset[LABEL] is there for every trace.
DropExtraKeys(r, ref, expected) ==
    [r EXCEPT !.heap[ref] = SelectSeq(@, LAMBDA e : InList(expected, e.k)),
              !.extra = @ \o Traces(r.heap[ref],
                                    SelectSeq(Keys(r.heap[ref]),
                                              LAMBDA k : ~InList(expected, k)))]

\* loop over the expected fields of the asset_group in EPA_ASSET_KEYS
NoteMissingKeys(r, ref, expected) ==
    [r EXCEPT !.missing = @ \o Traces(r.heap[ref],
                                      SelectSeq(expected, LAMBDA k : ~Has(r.heap[ref], k)))]

\* the loop over the assets of epa_dict[MAP_MVS_EPA[asset_group]]
RECURSIVE CheckAssetList(_, _, _)
CheckAssetList(r, list, expected) ==
    IF list = <<>> THEN r
    ELSE CheckAssetList(
            NoteMissingKeys(DropExtraKeys(r, Head(list).ref, expected),
                            Head(list).ref, expected),
            Tail(list), expected)

\* the loop over the asset groups; v = [heap, extra_keys, missing_keys]
\* extra_keys[asset_group], missing_keys[asset_group] as found in r
StoreKeys(v, asset_group, r) ==
    [heap |-> r.heap,
     extra_keys |-> Put(v.extra_keys, asset_group, r.extra),
     missing_keys |-> Put(v.missing_keys, asset_group, r.missing)]

RECURSIVE CheckAssetGroups(_, _, _)
CheckAssetGroups(v, epa_assets, groups) ==
    IF groups = <<>> THEN v
    ELSE CheckAssetGroups(
            StoreKeys(v, Head(groups).k,
                      CheckAssetList([heap |-> v.heap, extra |-> <<>>, missing |-> <<>>],
                                     Get(epa_assets, Get(MAP_MVS_EPA, Head(groups).k)),
                                     Head(groups).v)),
            epa_assets, Tail(groups))

NoReport == [extra_keys |-> <<>>, missing_keys |-> <<>>]

\* the extra and the missing keys of the epa_dict c, if it was built
CheckKeys(c) ==
    IF c.err = ""
    THEN CheckAssetGroups([heap |-> c.heap, extra_keys |-> <<>>, missing_keys |-> <<>>],
                          c.assets, EPA_ASSET_KEYS)
    ELSE [heap |-> c.heap, extra_keys |-> <<>>, missing_keys |-> <<>>]

\* Returned with the parameter groups left out of what a verbatim call returns
ReturnedKeysOnly(c, v, verbatim) ==
    [heap |-> v.heap, params |-> IF verbatim THEN <<>> ELSE c.params,
     assets |-> c.assets, err |-> c.err,
     extra_keys |-> v.extra_keys, missing_keys |-> v.missing_keys,
     printed |-> (c.err = "" /\ verbatim)]

\* what the call leaves: the epa_dict c, the keys v, and what was printed
Returned(c, v, verbatim) ==
    [heap |-> v.heap, params |-> c.params, assets |-> c.assets, err |-> c.err,
     extra_keys |-> v.extra_keys, missing_keys |-> v.missing_keys,
     printed |-> (c.err = "" /\ verbatim)]

ReturnChecked(c, verbatim) == Returned(c, CheckKeys(c), verbatim)

\* the result: [heap, params, assets, err, extra_keys, missing_keys, printed],
\* epa_dict being (params, assets)
convert_mvs_params_to_epa(h, mvs_dict, verbatim) ==
    ReturnChecked(
        MvsAssetGroups(
            MvsParamGroups([heap |-> h, params |-> <<>>, assets |-> <<>>, err |-> ""],
                           mvs_dict, EPA_PARAM_KEYS),
            mvs_dict, EPA_ASSET_KEYS),
        verbatim)

---------------------------------------------------------------------------
(* What a payload holds: the payload with every reference replaced by the  *)
(* dict it refers to.                                                      *)

ParamsValue(h, params) ==
    [i \in DOMAIN params |->
        [k |-> params[i].k, kind |-> params[i].v.kind, fields |-> h[params[i].v.ref]]]

AssetValue(h, asset) ==
    [kind |-> asset.kind,
     fields |-> IF asset.kind = "asset" THEN h[asset.ref] ELSE <<>>,
     raw |-> asset.raw]

\* an EPA payload: the assets of a group are a list
EpaValue(h, payload) ==
    [params |-> ParamsValue(h, payload.params),
     assets |-> [i \in DOMAIN payload.assets |->
                    [k |-> payload.assets[i].k,
                     v |-> [j \in DOMAIN payload.assets[i].v |->
                              AssetValue(h, payload.assets[i].v[j])]]]]

\* an MVS payload: the assets of a group are a dict label -> asset
MvsValue(h, payload) ==
    [params |-> ParamsValue(h, payload.params),
     assets |-> [i \in DOMAIN payload.assets |->
                    [k |-> payload.assets[i].k,
                     v |-> [j \in DOMAIN payload.assets[i].v |->
                              [k |-> payload.assets[i].v[j].k,
                               v |-> AssetValue(h, payload.assets[i].v[j].v)]]]]]

---------------------------------------------------------------------------
(* The payloads the converters are called with.  A payload is described by *)
(* what it holds, [params: dict group -> fields, assets: dict group ->      *)
(* assets], and is then laid out on the heap.  The inputs are the complete  *)
(* payload with at most MaxDev changes; a change is                         *)
(* [op, group, key, val, fields].                                           *)

DropGroup(group) ==
    [op |-> "drop_group", group |-> group, key |-> "", val |-> NoValue, fields |-> <<>>]
DropField(group, key) ==
    [op |-> "drop_field", group |-> group, key |-> key, val |-> NoValue, fields |-> <<>>]
AddField(group, key, val) ==
    [op |-> "add_field", group |-> group, key |-> key, val |-> val, fields |-> <<>>]
DropAssets(group) ==
    [op |-> "drop_assets", group |-> group, key |-> "", val |-> NoValue, fields |-> <<>>]
\* key is the label the asset is stored under in an MVS payload
AddAsset(group, key, fields) ==
    [op |-> "add_asset", group |-> group, key |-> key, val |-> NoValue, fields |-> fields]

EPA_ASSET_GROUPS ==
    <<"energy_consumption", "energy_conversion", "energy_production", "energy_storage",
      "energy_busses", "energy_providers">>

CompleteEpa ==
    [params |->
        << [k |-> "project_data", v |->
              << [k |-> PROJECT_ID, v |-> Num(1)], [k |-> PROJECT_NAME, v |-> Str("project")],
                 [k |-> SCENARIO_ID, v |-> Num(2)], [k |-> SCENARIO_NAME, v |-> Str("scenario")] >>],
           [k |-> "economic_data", v |->
              << [k |-> "currency", v |-> Str("EUR")],
                 [k |-> "discount_factor", v |-> ValueUnit("factor", 1)],
                 [k |-> "project_duration", v |-> ValueUnit("year", 20)],
                 [k |-> "tax", v |-> ValueUnit("factor", 0)] >>],
           [k |-> "simulation_settings", v |->
              << [k |-> START_DATE, v |-> Str("2020-01-01")],
                 [k |-> EVALUATED_PERIOD, v |-> ValueUnit("day", 1)],
                 [k |-> "time_step", v |-> ValueUnit("min", 60)],
                 [k |-> OUTPUT_LP_FILE, v |-> BoolUnit("bool", TRUE)] >>],
           [k |-> "constraints", v |->
              << [k |-> MINIMAL_RENEWABLE_FACTOR, v |-> ValueUnit("factor", 1)] >>],
           [k |-> FIX_COST, v |->
              << [k |-> "distribution_grid", v |-> ValueUnit("currency", 5)] >>] >>,
     assets |-> [i \in DOMAIN EPA_ASSET_GROUPS |-> [k |-> EPA_ASSET_GROUPS[i], v |-> <<>>]]]

\* the assets an EPA asset list is filled with
EpaAssetPool ==
    << << [k |-> LABEL, v |-> Str("pv")],
          [k |-> "installed_capacity", v |-> ValueUnit("kW", 1)] >>,
       << [k |-> LABEL, v |-> Str("pv")],
          [k |-> "input_timeseries", v |-> TimeseriesDict("kW", <<1, 2, 3>>)] >>,
       << [k |-> LABEL, v |-> Str("timeseries")],
          [k |-> UNIT, v |-> Str("kW")] >>,
       << [k |-> LABEL, v |-> Str("timeseries")],
          [k |-> "installed_capacity", v |-> ValueUnit("kW", 2)] >>,
       << [k |-> "installed_capacity", v |-> ValueUnit("kW", 3)] >> >>

EpaParamChanges ==
    << DropGroup("project_data"), DropField("project_data", PROJECT_NAME),
       DropGroup("economic_data"),
       DropGroup("simulation_settings"), DropField("simulation_settings", OUTPUT_LP_FILE),
       DropField("simulation_settings", START_DATE),
       AddField("simulation_settings", TIMESTEP, ValueUnit("min", 15)),
       DropGroup("constraints"), DropField("constraints", MINIMAL_RENEWABLE_FACTOR),
       DropGroup(FIX_COST) >>

\* the asset lists that are filled
EpaFilledGroups == <<"energy_consumption", "energy_production", "energy_busses">>

EpaChanges ==
    EpaParamChanges
    \o [i \in DOMAIN EPA_ASSET_GROUPS |-> DropAssets(EPA_ASSET_GROUPS[i])]
    \o [i \in 1..(Len(EpaFilledGroups) * Len(EpaAssetPool)) |->
          AddAsset(EpaFilledGroups[((i - 1) \div Len(EpaAssetPool)) + 1], "",
                   EpaAssetPool[((i - 1) % Len(EpaAssetPool)) + 1])]

CompleteMvs ==
    [params |->
        << [k |-> PROJECT_DATA, v |->
              << [k |-> PROJECT_ID, v |-> Num(1)], [k |-> PROJECT_NAME, v |-> Str("project")],
                 [k |-> SCENARIO_ID, v |-> Num(2)], [k |-> SCENARIO_NAME, v |-> Str("scenario")],
                 [k |-> "country", v |-> Str("Norway")] >>],
           [k |-> ECONOMIC_DATA, v |->
              << [k |-> "currency", v |-> Str("EUR")] >>],
           [k |-> SIMULATION_SETTINGS, v |->
              << [k |-> START_DATE, v |-> Str("2020-01-01")],
                 [k |-> EVALUATED_PERIOD, v |-> ValueUnit("day", 1)],
                 [k |-> TIMESTEP, v |-> ValueUnit("min", 60)],
                 [k |-> OUTPUT_LP_FILE, v |-> BoolUnit("bool", FALSE)] >>],
           [k |-> CONSTRAINTS, v |->
              << [k |-> MINIMAL_RENEWABLE_FACTOR, v |-> ValueUnit("factor", 1)] >>],
           [k |-> KPI, v |->
              << [k |-> KPI_SCALARS_DICT, v |-> Mapping(<<"total_costs">>)],
                 [k |-> "cost_matrix", v |-> Mapping(<<"pv">>)] >>],
           [k |-> FIX_COST, v |->
              << [k |-> "distribution_grid", v |-> ValueUnit("currency", 5)] >>] >>,
     assets |-> [i \in DOMAIN MVS_ASSET_GROUPS |-> [k |-> MVS_ASSET_GROUPS[i], v |-> <<>>]]]

\* the assets an MVS asset group is filled with: [label, fields]
MvsAssetPool ==
    << [label |-> "pv", fields |->
          << [k |-> INSTALLED_CAP, v |-> ValueUnit("kW", 1)],
             [k |-> "flow", v |-> Series(<<4, 5>>)] >>],
       [label |-> "pv", fields |->
          << [k |-> LABEL, v |-> Str("pv")],
             [k |-> TIMESERIES, v |-> Series(<<1, 2, 3>>)],
             [k |-> UNIT, v |-> Str("kW")] >>],
       [label |-> "wind", fields |->
          << [k |-> TIMESERIES, v |-> Series(<<1, 2, 3>>)] >>],
       [label |-> "wind", fields |->
          << [k |-> TIMESERIES, v |-> List(<<1, 2, 3>>)],
             [k |-> UNIT, v |-> Str("kW")] >>],
       [label |-> "bat_excess", fields |->
          << [k |-> INSTALLED_CAP, v |-> ValueUnit("kW", 2)] >>],
       [label |-> "dso_sink", fields |->
          << [k |-> LABEL, v |-> Str("dso_sink")] >>],
       [label |-> "bus", fields |->
          << [k |-> ENERGY_VECTOR, v |-> Str("Electricity")],
             [k |-> "Asset_list", v |-> Mapping(<<"pv", "wind">>)] >>],
       [label |-> "heat_sink_pump", fields |->
          << [k |-> INSTALLED_CAP, v |-> ValueUnit("kW", 3)] >>] >>

\* the asset groups that are filled
MvsFilledGroups == <<ENERGY_PRODUCTION, ENERGY_BUSSES, ENERGY_PROVIDERS>>

MvsChanges ==
    << DropGroup(KPI), DropGroup(PROJECT_DATA),
       AddField(SIMULATION_SETTINGS, "time_step", ValueUnit("min", 15)) >>
    \o [i \in DOMAIN MVS_ASSET_GROUPS |-> DropAssets(MVS_ASSET_GROUPS[i])]
    \o [i \in 1..(Len(MvsFilledGroups) * Len(MvsAssetPool)) |->
          AddAsset(MvsFilledGroups[((i - 1) \div Len(MvsAssetPool)) + 1],
                   MvsAssetPool[((i - 1) % Len(MvsAssetPool)) + 1].label,
                   MvsAssetPool[((i - 1) % Len(MvsAssetPool)) + 1].fields)]

\* one change made to the description of a payload; as_dict: the assets of a
\* group are a dict label -> asset (MVS), else a list (EPA)
Change(p, ch, as_dict) ==
    CASE ch.op = "drop_group" ->
            IF Has(p.params, ch.group) THEN [p EXCEPT !.params = Pop(@, ch.group)] ELSE p
      [] ch.op = "drop_field" ->
            IF Has(p.params, ch.group) /\ Has(Get(p.params, ch.group), ch.key)
            THEN [p EXCEPT !.params = Put(@, ch.group, Pop(Get(@, ch.group), ch.key))]
            ELSE p
      [] ch.op = "add_field" ->
            IF Has(p.params, ch.group)
            THEN [p EXCEPT !.params = Put(@, ch.group, Put(Get(@, ch.group), ch.key, ch.val))]
            ELSE p
      [] ch.op = "drop_assets" ->
            IF Has(p.assets, ch.group) THEN [p EXCEPT !.assets = Pop(@, ch.group)] ELSE p
      [] ch.op = "add_asset" ->
            IF Has(p.assets, ch.group)
            THEN [p EXCEPT !.assets =
                    Put(@, ch.group,
                        IF as_dict THEN Put(Get(@, ch.group), ch.key, ch.fields)
                        ELSE Append(Get(@, ch.group), ch.fields))]
            ELSE p

RECURSIVE Changed(_, _, _, _)
Changed(p, changes, picks, as_dict) ==
    IF picks = <<>> THEN p
    ELSE Changed(Change(p, changes[Head(picks)], as_dict), changes, Tail(picks), as_dict)

\* the choices of at most MaxDev changes out of n
Picks(n) == UNION {[1..m -> 1..n] : m \in 0..MaxDev}

---------------------------------------------------------------------------
(* Laying a described payload out on the heap: every parameter group and   *)
(* every asset is a dict object of its own.  acc = [heap, done].           *)

RECURSIVE LoadParams(_, _)
LoadParams(acc, groups) ==
    IF groups = <<>> THEN acc
    ELSE LoadParams([heap |-> Alloc(acc.heap, Head(groups).v),
                     done |-> Append(acc.done, [k |-> Head(groups).k,
                                                v |-> DictRef(NewRef(acc.heap))])],
                    Tail(groups))

RECURSIVE LoadAssetList(_, _)
LoadAssetList(acc, list) ==
    IF list = <<>> THEN acc
    ELSE LoadAssetList([heap |-> Alloc(acc.heap, Head(list)),
                        done |-> Append(acc.done, AssetRef(NewRef(acc.heap)))],
                       Tail(list))

RECURSIVE LoadAssetDict(_, _)
LoadAssetDict(acc, entries) ==
    IF entries = <<>> THEN acc
    ELSE LoadAssetDict([heap |-> Alloc(acc.heap, Head(entries).v),
                        done |-> Append(acc.done, [k |-> Head(entries).k,
                                                   v |-> AssetRef(NewRef(acc.heap))])],
                       Tail(entries))

RECURSIVE LoadAssetGroups(_, _, _)
LoadAssetGroups(acc, groups, as_dict) ==
    IF groups = <<>> THEN acc
    ELSE LET start == [heap |-> acc.heap, done |-> <<>>]
             assets == IF as_dict THEN LoadAssetDict(start, Head(groups).v)
                       ELSE LoadAssetList(start, Head(groups).v)
         IN  LoadAssetGroups([heap |-> assets.heap,
                              done |-> Append(acc.done, [k |-> Head(groups).k,
                                                         v |-> assets.done])],
                             Tail(groups), as_dict)

\* [heap, payload]
Load(p, as_dict) ==
    LET params == LoadParams([heap |-> <<>>, done |-> <<>>], p.params)
        assets == LoadAssetGroups([heap |-> params.heap, done |-> <<>>], p.assets, as_dict)
    IN  [heap |-> assets.heap, payload |-> [params |-> params.done, assets |-> assets.done]]

---------------------------------------------------------------------------
(* A0_initialization.py: the command line and the folders.  The file       *)
(* system is known by its directories: fs[d] = [exists, entries], with     *)
(* entries the names found in d.  get_user_input is computed on a record s *)
(* of its locals, [path_input_file, path_output_folder, overwrite,         *)
(* display_output, lp_file_output, path_input_folder, input_file_name],    *)
(* together with test (the keyword argument), err (the exception raised,   *)
(* "" for none), reached (the step it got to), fs, and check, the record   *)
(* of its check_output_directory call.                                     *)

\* os.path.dirname(path) of the input files of the model
dirname(path) ==
    CASE path = "./inputs/working_example.json" -> "./inputs"
      [] path = "in/data.json" -> "in"
      [] OTHER -> ""

\* os.path.basename(path) of the input files of the model
basename(path) ==
    CASE path = "./inputs/working_example.json" -> "working_example.json"
      [] path = "in/data.json" -> "data.json"
      [] OTHER -> path

\* os.path.isdir(d), os.path.exists(d)
isdir(files, d) == d \in DOMAIN files /\ files[d].exists

NoOutputCheck ==
    [called |-> FALSE, path_output_folder |-> "", overwrite |-> FALSE, existed |-> FALSE,
     entries |-> {}, asked |-> FALSE, user_reply |-> "", err |-> "",
     after |-> [exists |-> FALSE, entries |-> {}]]

NoUserInput ==
    [called |-> FALSE, test |-> FALSE, path_input_file |-> "", path_output_folder |-> "",
     overwrite |-> FALSE, display_output |-> "", lp_file_output |-> FALSE,
     path_input_folder |-> "", input_file_name |-> "", reached |-> ""]

\* sys.exit() if the folder or the file is not there
check_input_directory(s) ==
    IF s.err # "" THEN s
    ELSE LET path_input_folder == dirname(s.path_input_file)
             name_input_file == basename(s.path_input_file)
         IN  IF ~isdir(s.fs, path_input_folder)
             THEN [s EXCEPT !.err = "SystemExit", !.reached = "check_input_directory"]
             ELSE IF name_input_file \notin s.fs[path_input_folder].entries
             THEN [s EXCEPT !.err = "SystemExit", !.reached = "check_input_directory"]
             ELSE [s EXCEPT !.path_input_folder = path_input_folder,
                            !.input_file_name = name_input_file,
                            !.reached = "check_input_directory"]

\* The result is [fs, check]: the file system and the record of the call.  After the
\* reply "y", "Y", "yes" or "Yes" the statement is `overwrite is True`, a comparison
\* whose value is dropped: overwrite stays as it was passed.  The folder is removed
\* and made again if overwrite is True, made if it is not there, and left otherwise.
check_output_directory(files, path_output_folder, overwrite, user_reply) ==
    LET existed == isdir(files, path_output_folder)
        asked == existed /\ ~overwrite
        refused == asked /\ ~InList(<<"y", "Y", "yes", "Yes">>, user_reply)
        made == [files EXCEPT ![path_output_folder] = [exists |-> TRUE, entries |-> {}]]
        left == IF refused THEN files
                ELSE IF existed THEN (IF overwrite THEN made ELSE files)
                ELSE made
    IN  [fs |-> left,
         check |-> [called |-> TRUE, path_output_folder |-> path_output_folder,
                    overwrite |-> overwrite, existed |-> existed,
                    entries |-> IF existed THEN files[path_output_folder].entries ELSE {},
                    asked |-> asked, user_reply |-> IF asked THEN user_reply ELSE "",
                    err |-> IF refused THEN "FileExistsError" ELSE "",
                    after |-> left[path_output_folder]]]

\* the parameters of get_user_input with their defaults
Locals(files, test) ==
    [path_input_file |-> "./inputs/working_example.json",
     path_output_folder |-> "./MVS_outputs",
     overwrite |-> FALSE, display_output |-> "-debug", lp_file_output |-> FALSE,
     path_input_folder |-> "", input_file_name |-> "",
     test |-> test, err |-> "", reached |-> "arguments", fs |-> files,
     check |-> NoOutputCheck]

\* for argument in range(3, len(sys.argv) + 1); sys.argv[argument] is
\* sys_argv[argument + 1], sequences being counted from 1
RECURSIVE ScanArguments(_, _, _)
ScanArguments(s, sys_argv, argument) ==
    IF argument >= Len(sys_argv) + 1 \/ s.err # "" THEN s
    ELSE IF argument + 1 > Len(sys_argv) THEN [s EXCEPT !.err = "IndexError"]
    ELSE LET word == sys_argv[argument + 1]
             next ==
                IF word = "-f" THEN [s EXCEPT !.overwrite = TRUE]
                ELSE IF word \in {"-debug", "-info", "-warnings", "-errors"}
                THEN [s EXCEPT !.display_output = word]
                ELSE IF word \in {"False", "True"}
                THEN [s EXCEPT !.lp_file_output = IF word = "True" THEN TRUE ELSE @]
                ELSE [s EXCEPT !.err = "SystemExit"]
         IN  ScanArguments(next, sys_argv, argument + 1)

\* Read terminal inputs
ReadTerminalInputs(s, sys_argv) ==
    IF s.test THEN [s EXCEPT !.overwrite = TRUE]
    ELSE IF Len(sys_argv) <= 1 THEN [s EXCEPT !.overwrite = TRUE]
    ELSE IF Len(sys_argv) = 2 THEN s
    ELSE IF Len(sys_argv) = 3 \/ Len(sys_argv) = 4
    THEN ScanArguments([s EXCEPT !.path_input_file = sys_argv[2],
                                 !.path_output_folder = sys_argv[3]],
                       sys_argv, 3)
    ELSE [s EXCEPT !.err = "SystemExit"]

\* check_output_directory(path_output_folder, overwrite) within get_user_input
CheckOutput(s, user_reply) ==
    IF s.err # "" THEN s
    ELSE LET r == check_output_directory(s.fs, s.path_output_folder, s.overwrite, user_reply)
         IN  [s EXCEPT !.fs = r.fs, !.check = r.check, !.err = r.check.err,
                       !.reached = "check_output_directory"]

\* os.mkdir(path_output_folder + "/inputs/") and the copy of the input file into it
CreateInputsFolder(s) ==
    IF s.err # "" THEN s
    ELSE IF "inputs" \in s.fs[s.path_output_folder].entries
    THEN [s EXCEPT !.err = "FileExistsError", !.reached = "mkdir"]
    ELSE [s EXCEPT !.fs[s.path_output_folder].entries =
                      @ \cup {"inputs", "inputs/" \o s.input_file_name},
                   !.reached = "return"]

get_user_input(files, sys_argv, test, user_reply) ==
    CreateInputsFolder(
        CheckOutput(
            check_input_directory(ReadTerminalInputs(Locals(files, test), sys_argv)),
            user_reply))

---------------------------------------------------------------------------
(* The caller.  It holds an EPA payload and converts it to MVS parameters, *)
(* or it holds MVS parameters (its own, or the converted ones) and         *)
(* converts them to EPA parameters, up to MaxCalls times.  hist records    *)
(* what the caller can observe of the calls:                               *)
(*   to_mvs      how convert_epa_params_to_mvs ended, "none" before it     *)
(*   epa_before  what the EPA payload held when it was called              *)
(*   epa_after   what the EPA payload held when it ended                   *)
(*   returned    what the returned dict_values held                        *)
(*   compared    the report of missing parameters, left: what was left of  *)
(*               it after the defaults                                     *)
(*   calls       of each convert_mvs_params_to_epa call: what the MVS      *)
(*               payload held before and after, the status, what the       *)
(*               returned epa_dict held, verbatim, and whether the keys    *)
(*               were printed                                              *)

NoHistory ==
    [to_mvs |-> "none", epa_before |-> NoPayload, epa_after |-> NoPayload,
     returned |-> NoPayload, compared |-> <<>>, left |-> <<>>, calls |-> <<>>]

InitEpa ==
    \E picks \in Picks(Len(EpaChanges)) :
    \E loaded \in {Load(Changed(CompleteEpa, EpaChanges, picks, FALSE), FALSE)} :
            /\ heap = loaded.heap
            /\ epa = loaded.payload
            /\ mvs = NoPayload
            /\ pc = "epa"

InitMvs ==
    \E picks \in Picks(Len(MvsChanges)) :
    \E loaded \in {Load(Changed(CompleteMvs, MvsChanges, picks, TRUE), TRUE)} :
            /\ heap = loaded.heap
            /\ epa = NoPayload
            /\ mvs = loaded.payload
            /\ pc = "mvs"

Init ==
    /\ InitEpa \/ InitMvs
    /\ out = NoPayload
    /\ status = "none"
    /\ msg = <<>>
    /\ report = NoReport
    /\ hist = NoHistory
    /\ forward = MAP_EPA_MVS
    /\ reverse = MAP_MVS_EPA
    /\ argv = <<>>
    /\ fs = <<>>
    /\ user_input = NoUserInput
    /\ output_check = NoOutputCheck

StatusOf(err) == IF err = "" THEN "ok" ELSE err

\* dict_values = convert_epa_params_to_mvs(epa_dict)
CallEpaToMvs ==
    /\ pc = "epa"
    /\ \E absent_as_none \in BOOLEAN :
       \E r \in {convert_epa_params_to_mvs(heap, epa, absent_as_none)} :
              /\ heap' = r.heap
              /\ status' = StatusOf(r.err)
              /\ msg' = r.msg
              /\ mvs' = IF r.err = "" THEN [params |-> r.params, assets |-> r.assets]
                        ELSE NoPayload
              /\ pc' = IF r.err = "" THEN "mvs" ELSE "failed"
              /\ hist' = [hist EXCEPT
                            !.to_mvs = StatusOf(r.err),
                            !.compared = r.compared,
                            !.left = r.d,
                            !.epa_before = EpaValue(heap, epa),
                            !.epa_after = EpaValue(r.heap, epa),
                            !.returned = IF r.err = ""
                                         THEN MvsValue(r.heap, [params |-> r.params,
                                                                assets |-> r.assets])
                                         ELSE NoPayload]
    /\ UNCHANGED <<epa, out, report, forward, reverse, argv, fs, user_input, output_check>>

\* epa_dict = convert_mvs_params_to_epa(mvs_dict, verbatim)
CallMvsToEpa ==
    /\ pc = "mvs"
    /\ Len(hist.calls) < MaxCalls
    /\ \E verbatim \in BOOLEAN :
       \E r \in {convert_mvs_params_to_epa(heap, mvs, verbatim)} :
          LET returned == [params |-> r.params, assets |-> r.assets]
          IN  /\ heap' = r.heap
              /\ status' = StatusOf(r.err)
              /\ out' = IF r.err = "" THEN returned ELSE out
              /\ report' = IF r.err = ""
                           THEN [extra_keys |-> r.extra_keys, missing_keys |-> r.missing_keys]
                           ELSE report
              /\ hist' = [hist EXCEPT !.calls = Append(@,
                            [before |-> MvsValue(heap, mvs),
                             after |-> MvsValue(r.heap, mvs),
                             status |-> StatusOf(r.err),
                             out |-> IF r.err = "" THEN EpaValue(r.heap, returned)
                                     ELSE NoPayload,
                             verbatim |-> verbatim,
                             printed |-> r.printed])]
    /\ UNCHANGED <<epa, mvs, msg, pc, forward, reverse, argv, fs, user_input, output_check>>

Next == CallEpaToMvs \/ CallMvsToEpa

Spec == Init /\ [][Next]_vars

---------------------------------------------------------------------------
(* Loading the module: MAP_MVS_EPA is derived from MAP_EPA_MVS.  To see    *)
(* what the derivation does with a table, the module is loaded with        *)
(* MAP_EPA_MVS or with any table of at most MaxPairs pairs of these names; *)
(* as in a dict, no key occurs twice in a table.                           *)

TableKeys == {"time_step", "input_timeseries", "installed_capacity", "renewable_asset"}
TableValues == {TIMESTEP, TIMESERIES, INSTALLED_CAP, RENEWABLE_ASSET_BOOL}

Tables ==
    {MAP_EPA_MVS} \cup
    {t \in UNION {[1..m -> [k : TableKeys, v : TableValues]] : m \in 0..MaxPairs} :
        \A i, j \in DOMAIN t : i # j => t[i].k # t[j].k}

TableInit ==
    /\ forward \in Tables
    /\ reverse = <<>>
    /\ pc = "import"
    /\ status = "none"
    /\ heap = <<>>
    /\ epa = NoPayload
    /\ mvs = NoPayload
    /\ out = NoPayload
    /\ msg = <<>>
    /\ report = NoReport
    /\ hist = NoHistory
    /\ argv = <<>>
    /\ fs = <<>>
    /\ user_input = NoUserInput
    /\ output_check = NoOutputCheck

\* MAP_MVS_EPA = {value: key for (key, value) in MAP_EPA_MVS.items()}
BuildReverse ==
    /\ pc = "import"
    /\ reverse' = Invert(forward, <<>>)
    /\ status' = "ok"
    /\ pc' = "imported"
    /\ UNCHANGED <<heap, epa, mvs, out, msg, report, hist, forward,
                   argv, fs, user_input, output_check>>

TableSpec == TableInit /\ [][BuildReverse]_vars

---------------------------------------------------------------------------
(* The program is started with a command line, in a file system where the  *)
(* input folders, the input files and the output folders are there or not; *)
(* it calls get_user_input, or check_output_directory is called by itself. *)

\* the command lines: the program, the input file, the output folder and at most
\* MaxOptions more words
CommandLines ==
    {<<"A_mvs_eland.py">>, <<"A_mvs_eland.py", "in/data.json">>}
    \cup {<<"A_mvs_eland.py", "in/data.json", "out">> \o options :
            options \in UNION {[1..m -> {"-f", "-info", "True", "False", "-x"}] :
                                 m \in 0..MaxOptions}}

\* an input folder is not there, empty, or has the input file; an output folder is
\* not there, or has a file of an earlier run, or has the folder "inputs" of one
FileSystems ==
    {files \in [{"./inputs", "in", "./MVS_outputs", "out"} ->
                   [exists : BOOLEAN,
                    entries : {{}, {"working_example.json"}, {"data.json"},
                               {"old.log"}, {"inputs", "inputs/data.json"}}]] :
        /\ \A d \in DOMAIN files : ~files[d].exists => files[d].entries = {}
        /\ files["./inputs"].entries \in {{}, {"working_example.json"}}
        /\ files["in"].entries \in {{}, {"data.json"}}
        /\ \A d \in {"./MVS_outputs", "out"} :
              files[d].exists =>
                  files[d].entries \in {{"old.log"}, {"inputs", "inputs/data.json"}}}

CliInit ==
    /\ argv \in CommandLines
    /\ fs \in FileSystems
    /\ user_input = NoUserInput
    /\ output_check = NoOutputCheck
    /\ pc = "start"
    /\ status = "none"
    /\ heap = <<>>
    /\ epa = NoPayload
    /\ mvs = NoPayload
    /\ out = NoPayload
    /\ msg = <<>>
    /\ report = NoReport
    /\ hist = NoHistory
    /\ forward = <<>>
    /\ reverse = <<>>

\* user_input = get_user_input(**kwargs), with the reply the user gives if asked
CallGetUserInput ==
    /\ pc = "start"
    /\ \E test \in BOOLEAN, user_reply \in {"y", "Yes", "n", ""} :
       \E s \in {get_user_input(fs, argv, test, user_reply)} :
              /\ fs' = s.fs
              /\ status' = StatusOf(s.err)
              /\ output_check' = s.check
              /\ user_input' =
                    [called |-> TRUE, test |-> test,
                     path_input_file |-> s.path_input_file,
                     path_output_folder |-> s.path_output_folder,
                     overwrite |-> s.overwrite, display_output |-> s.display_output,
                     lp_file_output |-> s.lp_file_output,
                     path_input_folder |-> s.path_input_folder,
                     input_file_name |-> s.input_file_name, reached |-> s.reached]
    /\ pc' = "done"
    /\ UNCHANGED <<heap, epa, mvs, out, msg, report, hist, forward, reverse, argv>>

\* check_output_directory(path_output_folder, overwrite)
CallCheckOutputDirectory ==
    /\ pc = "start"
    /\ \E path_output_folder \in {"./MVS_outputs", "out"}, overwrite \in BOOLEAN,
          user_reply \in {"y", "Yes", "n", ""} :
       \E r \in {check_output_directory(fs, path_output_folder, overwrite, user_reply)} :
              /\ fs' = r.fs
              /\ status' = StatusOf(r.check.err)
              /\ output_check' = r.check
    /\ pc' = "done"
    /\ UNCHANGED <<heap, epa, mvs, out, msg, report, hist, forward, reverse, argv,
                   user_input>>

CliSpec == CliInit /\ [][CallGetUserInput \/ CallCheckOutputDirectory]_vars


---------------------------------------------------------------------------
(* Properties of the conversions, stated on what the caller observes.      *)

\* convert_epa_params_to_mvs was called and returned dict_values
Converted == hist.to_mvs = "ok"

LabelOf(asset) == Get(asset.fields, LABEL).u

\* record j of the asset list is the one dict_asset keeps for its label
KeptForLabel(list, j) ==
    \A n \in (j + 1)..Len(list) : LabelOf(list[n]) # LabelOf(list[j])

\* the EPA asset has a timeseries of the form {unit, data}
HasComposite(asset) ==
    /\ Has(asset.fields, "input_timeseries")
    /\ Get(asset.fields, "input_timeseries").t = "unit_data"

\* the asset of the returned dict_values that record j of the EPA list became
InternalOf(epa_group, list, j) ==
    Get(Get(hist.returned.assets, Get(MAP_EPA_MVS, epa_group)), LabelOf(list[j]))

\* the EPA payload has a record with a timeseries composite
SomeComposite ==
    \E i \in DOMAIN hist.epa_before.assets :
        \E j \in DOMAIN hist.epa_before.assets[i].v :
            HasComposite(hist.epa_before.assets[i].v[j])

\* C1: after convert_epa_params_to_mvs, every asset that had a timeseries {unit, data}
\* has a top-level unit equal to the unit of the composite, and its timeseries is
\* the numeric sequence alone.
C1_UnitMovedOutside ==
    Converted =>
        \A i \in DOMAIN hist.epa_before.assets :
            \A j \in DOMAIN hist.epa_before.assets[i].v :
                LET list == hist.epa_before.assets[i].v
                    ts == Get(list[j].fields, "input_timeseries")
                    internal == InternalOf(hist.epa_before.assets[i].k, list, j)
                IN  HasComposite(list[j]) /\ KeptForLabel(list, j) =>
                        /\ internal.kind = "asset"
                        /\ Has(internal.fields, UNIT)
                        /\ Get(internal.fields, UNIT) = Str(ts.u)
                        /\ Has(internal.fields, TIMESERIES)
                        /\ Get(internal.fields, TIMESERIES) = List(ts.d)

\* a payload with a timeseries composite was converted
C1_CompositeConverted == Converted /\ SomeComposite

\* C2: convert_epa_params_to_mvs followed by convert_mvs_params_to_epa on its result
\* completes, and the asset has the timeseries composite {unit, data} it started with.
C2_TimeseriesRoundTrip ==
    Converted /\ Len(hist.calls) >= 1 =>
        \A i \in DOMAIN hist.epa_before.assets :
            \A j \in DOMAIN hist.epa_before.assets[i].v :
                LET list == hist.epa_before.assets[i].v
                    group == hist.epa_before.assets[i].k
                IN  HasComposite(list[j]) /\ KeptForLabel(list, j) =>
                        /\ hist.calls[1].status = "ok"
                        /\ \E back \in Range(Get(hist.calls[1].out.assets, group)) :
                              /\ Has(back.fields, LABEL)
                              /\ LabelOf(back) = LabelOf(list[j])
                              /\ Has(back.fields, "input_timeseries")
                              /\ Get(back.fields, "input_timeseries")
                                    = Get(list[j].fields, "input_timeseries")

\* the result of converting a payload with a timeseries composite was converted back
C2_CompositeSentBack == Converted /\ SomeComposite /\ Len(hist.calls) >= 1

\* every asset record of the returned dict_values satisfies P
AllInternalAssets(P(_, _)) ==
    \A i \in DOMAIN hist.returned.assets :
        \A j \in DOMAIN hist.returned.assets[i].v :
            LET entry == hist.returned.assets[i].v[j]
            IN  entry.v.kind = "asset" => P(entry.k, entry.v.fields)

LabelKept(asset_label, fields) ==
    Has(fields, LABEL) /\ Get(fields, LABEL) = Str(asset_label)

LabelGone(asset_label, fields) == ~Has(fields, LABEL)

\* C3 (as the code has it): after convert_epa_params_to_mvs, the asset stored under the
\* label L still has its label field, and it equals L.
C3_LabelKeptInRecord == Converted => AllInternalAssets(LabelKept)

\* C3 (as claimed): after convert_epa_params_to_mvs, the asset stored under the label L
\* has no label field.
C3_LabelRemovedFromRecord == Converted => AllInternalAssets(LabelGone)

\* an asset was stored under its label
C3_AssetStored ==
    /\ Converted
    /\ \E i \in DOMAIN hist.returned.assets :
          \E j \in DOMAIN hist.returned.assets[i].v :
              hist.returned.assets[i].v[j].v.kind = "asset"

\* the group of the returned dict_values: [k, kind, fields]
ReturnedGroup(param_group) ==
    CHOOSE g \in Range(hist.returned.params) : g.k = param_group

HasReturnedGroup(param_group) == \E g \in Range(hist.returned.params) : g.k = param_group

\* the comparison was made and the constraints group of the EPA payload, nothing
\* else, was found missing
OnlyConstraintsMissing ==
    /\ hist.to_mvs # "none"
    /\ Keys(hist.compared) = <<CONSTRAINTS>>
    /\ \A g \in Range(hist.epa_before.params) : g.k # "constraints"

\* C4: when the constraints group is all that is missing, convert_epa_params_to_mvs
\* returns and the constraints group of the result is the mapping
\* {minimal_renewable_factor: {unit: "factor", value: 0}} itself.
C4_ConstraintsDefaultIsMapping ==
    OnlyConstraintsMissing =>
        /\ Converted
        /\ HasReturnedGroup(CONSTRAINTS)
        /\ ReturnedGroup(CONSTRAINTS).kind = "dict"
        /\ ReturnedGroup(CONSTRAINTS).fields
              = <<[k |-> MINIMAL_RENEWABLE_FACTOR, v |-> ValueUnit("factor", 0)]>>

\* a payload without constraints, complete otherwise, was converted
C4_ConstraintsDefaulted == OnlyConstraintsMissing /\ Converted

\* C5: whenever something is still missing after the three defaults,
\* convert_epa_params_to_mvs raises MissingParameterError and the message names every
\* group left and its fields, in the order of the report.
C5_FatalGapRaisesMissingParameterError ==
    hist.to_mvs # "none" /\ Len(hist.left) > 0 =>
        /\ hist.to_mvs = "MissingParameterError"
        /\ msg = ErrorHeader \o MissingLines(hist.left)

\* a group was absent, reported without a list of fields, and left after the defaults
C5_AbsentGroupLeft ==
    /\ hist.to_mvs # "none"
    /\ \E e \in Range(hist.left) : e.k = SIMULATION_SETTINGS /\ e.v.none

\* the entry of the missing-parameter report can be made up for by a default
Recoverable(e) ==
    \/ e.k = CONSTRAINTS
    \/ e.k = FIX_COST
    \/ e.k = SIMULATION_SETTINGS /\ ~e.v.none /\ e.v.fields = <<OUTPUT_LP_FILE>>

\* the comparison found OUTPUT_LP_FILE the only missing field of the simulation
\* settings, and nothing missing that has no default
OnlyOutputLpFileMissing ==
    /\ hist.to_mvs # "none"
    /\ \E e \in Range(hist.compared) :
          e.k = SIMULATION_SETTINGS /\ ~e.v.none /\ e.v.fields = <<OUTPUT_LP_FILE>>
    /\ \A e \in Range(hist.compared) : Recoverable(e)

\* C6 (as the code has it): when OUTPUT_LP_FILE is the only missing field of the
\* simulation settings, convert_epa_params_to_mvs returns and the setting is the
\* value with unit {unit: "bool", value: False}.
C6_OutputLpFileDefault ==
    OnlyOutputLpFileMissing =>
        /\ Converted
        /\ HasReturnedGroup(SIMULATION_SETTINGS)
        /\ Has(ReturnedGroup(SIMULATION_SETTINGS).fields, OUTPUT_LP_FILE)
        /\ Get(ReturnedGroup(SIMULATION_SETTINGS).fields, OUTPUT_LP_FILE)
              = BoolUnit("bool", FALSE)

\* C6 (as claimed): when OUTPUT_LP_FILE is the only missing field of the simulation
\* settings, convert_epa_params_to_mvs returns and the setting is the boolean False.
C6_OutputLpFileIsBareFalse ==
    OnlyOutputLpFileMissing =>
        /\ Converted
        /\ HasReturnedGroup(SIMULATION_SETTINGS)
        /\ Has(ReturnedGroup(SIMULATION_SETTINGS).fields, OUTPUT_LP_FILE)
        /\ Get(ReturnedGroup(SIMULATION_SETTINGS).fields, OUTPUT_LP_FILE) = Bool(FALSE)

\* a payload without the output_lp_file setting was converted
C6_OutputLpFileDefaulted == OnlyOutputLpFileMissing /\ Converted

\* the comparison found the fixcost group of the EPA payload missing, and nothing
\* missing that has no default
FixCostMissing ==
    /\ hist.to_mvs # "none"
    /\ \E e \in Range(hist.compared) : e.k = FIX_COST
    /\ \A g \in Range(hist.epa_before.params) : g.k # FIX_COST
    /\ \A e \in Range(hist.compared) : Recoverable(e)

\* C7: when the fixcost group is absent, convert_epa_params_to_mvs returns and the
\* result has the fixcost group as an empty mapping.
C7_FixCostDefaultIsEmpty ==
    FixCostMissing =>
        /\ Converted
        /\ HasReturnedGroup(FIX_COST)
        /\ ReturnedGroup(FIX_COST).kind = "dict"
        /\ ReturnedGroup(FIX_COST).fields = <<>>

\* a payload without fixcost was converted
C7_FixCostDefaulted == FixCostMissing /\ Converted

\* C8: convert_epa_params_to_mvs leaves the EPA payload of the caller as it was,
\* whether it returns or raises.
C8_EpaPayloadUnchanged ==
    hist.to_mvs # "none" => hist.epa_after = hist.epa_before

\* convert_epa_params_to_mvs returned and the EPA payload is no longer what it was
C8_EpaPayloadRenamed == Converted /\ hist.epa_after # hist.epa_before

\* C9: convert_mvs_params_to_epa leaves the MVS payload of the caller as it was.
C9_MvsPayloadUnchanged ==
    \A n \in DOMAIN hist.calls : hist.calls[n].after = hist.calls[n].before

\* convert_mvs_params_to_epa returned and the MVS payload is no longer what it was
C9_MvsPayloadChanged ==
    \E n \in DOMAIN hist.calls :
        hist.calls[n].status = "ok" /\ hist.calls[n].after # hist.calls[n].before

\* C10: a second convert_mvs_params_to_epa on the same mvs_dict completes as the first
\* did and returns the same payload.
C10_SecondCallSame ==
    Len(hist.calls) >= 2 /\ hist.calls[1].status = "ok" =>
        /\ hist.calls[2].status = "ok"
        /\ hist.calls[2].out = hist.calls[1].out

\* convert_mvs_params_to_epa was called twice on the same mvs_dict and the first call
\* returned
C10_CalledTwice == Len(hist.calls) >= 2 /\ hist.calls[1].status = "ok"

\* the calls of convert_mvs_params_to_epa that returned
ReturnedCalls == {n \in DOMAIN hist.calls : hist.calls[n].status = "ok"}

\* the list of the returned epa_dict for the asset group (MVS name) of call n
ListOf(n, asset_group) == Get(hist.calls[n].out.assets, Get(MAP_MVS_EPA, asset_group))

\* the labels of the records of a list
LabelsOf(list) == [j \in DOMAIN list |-> LabelOf(list[j])]

\* C11: no asset whose label carries "_excess" or "_sink" has a record in the list
\* that convert_mvs_params_to_epa returns for its group.
C11_SyntheticAssetsExcluded ==
    \A n \in ReturnedCalls :
        \A i \in DOMAIN hist.calls[n].before.assets :
            LET group == hist.calls[n].before.assets[i] IN
            \A e \in Range(group.v) :
                InLabel("_excess", e.k) \/ InLabel("_sink", e.k)
                    => ~InList(LabelsOf(ListOf(n, group.k)), e.k)

\* a payload with an "_excess" asset and a "_sink" asset was converted
C11_SyntheticAssetConverted ==
    \E n \in ReturnedCalls :
        /\ \E i \in DOMAIN hist.calls[n].before.assets :
              \E e \in Range(hist.calls[n].before.assets[i].v) : InLabel("_excess", e.k)
        /\ \E i \in DOMAIN hist.calls[n].before.assets :
              \E e \in Range(hist.calls[n].before.assets[i].v) : InLabel("_sink", e.k)

\* the MVS name of an EPA field
MvsName(k) == IF Has(MAP_EPA_MVS, k) THEN Get(MAP_EPA_MVS, k) ELSE k

\* the fields of an EPA record under their MVS names, as a set of entries
Translated(fields) == {[k |-> MvsName(e.k), v |-> e.v] : e \in Range(fields)}

\* every record of every asset list of the EPA payload has a label
AllLabelled ==
    \A i \in DOMAIN hist.epa_before.assets :
        \A a \in Range(hist.epa_before.assets[i].v) : Has(a.fields, LABEL)

\* record j of the list shares its label with an earlier record
RepeatsLabel(list, j) == \E n \in 1..(j - 1) : LabelOf(list[n]) = LabelOf(list[j])

\* some asset list of the EPA payload has two records with one label
SomeRepeatedLabel ==
    /\ AllLabelled
    /\ \E i \in DOMAIN hist.epa_before.assets :
          \E j \in DOMAIN hist.epa_before.assets[i].v :
              RepeatsLabel(hist.epa_before.assets[i].v, j)

\* C12: when an asset list has records with the same label, convert_epa_params_to_mvs
\* raises nothing for it, and the returned mapping has one entry for the label, with
\* the fields of the last of these records under their MVS names.
C12_LastRecordOfLabelKept ==
    hist.to_mvs # "none" /\ SomeRepeatedLabel =>
        /\ hist.to_mvs # "KeyError"
        /\ Converted =>
              \A i \in DOMAIN hist.epa_before.assets :
                  \A j \in DOMAIN hist.epa_before.assets[i].v :
                      LET list == hist.epa_before.assets[i].v
                          stored == Get(hist.returned.assets,
                                        Get(MAP_EPA_MVS, hist.epa_before.assets[i].k))
                      IN  RepeatsLabel(list, j) /\ KeptForLabel(list, j) =>
                              /\ Cardinality({n \in DOMAIN stored :
                                                stored[n].k = LabelOf(list[j])}) = 1
                              /\ Get(stored, LabelOf(list[j])).kind = "asset"
                              /\ Range(Get(stored, LabelOf(list[j])).fields)
                                    = Translated(list[j].fields)

\* a list with two records of one label was converted
C12_RepeatedLabelConverted == Converted /\ SomeRepeatedLabel

\* the labels of every asset list of the EPA payload are pairwise distinct
DistinctLabels ==
    /\ AllLabelled
    /\ \A i \in DOMAIN hist.epa_before.assets :
          \A j \in DOMAIN hist.epa_before.assets[i].v :
              ~RepeatsLabel(hist.epa_before.assets[i].v, j)

SomeAssetGiven ==
    \E i \in DOMAIN hist.epa_before.assets : hist.epa_before.assets[i].v # <<>>

\* the record of the list with the label
RecordOf(list, asset_label) ==
    CHOOSE a \in Range(list) : Has(a.fields, LABEL) /\ LabelOf(a) = asset_label

\* C13: an asset list with distinct labels, converted by convert_epa_params_to_mvs and
\* back by convert_mvs_params_to_epa, comes back with the same labels and, for every
\* field of EPA_ASSET_KEYS of its group, the same value.
C13_LabelRoundTrip ==
    Converted /\ Len(hist.calls) >= 1 /\ DistinctLabels =>
        /\ hist.calls[1].status = "ok"
        /\ \A i \in DOMAIN hist.epa_before.assets :
              LET list == hist.epa_before.assets[i].v
                  back == Get(hist.calls[1].out.assets, hist.epa_before.assets[i].k)
                  declared == Get(EPA_ASSET_KEYS,
                                  Get(MAP_EPA_MVS, hist.epa_before.assets[i].k))
              IN  /\ \A b \in Range(back) : Has(b.fields, LABEL)
                  /\ Range(LabelsOf(back)) = Range(LabelsOf(list))
                  /\ \A a \in Range(list) :
                        \A e \in Range(a.fields) :
                            InList(declared, e.k) =>
                                /\ Has(RecordOf(back, LabelOf(a)).fields, e.k)
                                /\ Get(RecordOf(back, LabelOf(a)).fields, e.k) = e.v

\* asset lists with distinct labels were converted and the result converted back
C13_ListSentBack ==
    Converted /\ Len(hist.calls) >= 1 /\ DistinctLabels /\ SomeAssetGiven

\* no two keys of the table have the same value
Injective(table) == \A i, j \in DOMAIN table : table[i].v = table[j].v => i = j

\* C14: the table derived from a table without repeated values maps every value back to
\* its key, has as many pairs, and gives the table back when derived from again; so it
\* is for MAP_EPA_MVS and MAP_MVS_EPA.
C14_ReverseTableIsInverse ==
    pc = "imported" /\ Injective(forward) =>
        /\ \A e \in Range(forward) : Has(reverse, e.v) /\ Get(reverse, e.v) = e.k
        /\ Len(reverse) = Len(forward)
        /\ Invert(reverse, <<>>) = forward

\* MAP_MVS_EPA was derived from MAP_EPA_MVS, which has no repeated value
C14_FieldMapLoaded ==
    pc = "imported" /\ forward = MAP_EPA_MVS /\ Injective(forward) /\ reverse = MAP_MVS_EPA

\* C15: when two keys of the table have the same value, deriving the reverse table
\* fails with a configuration error.
C15_RepeatedValueFails ==
    pc = "imported" /\ ~Injective(forward) => status = "ConfigurationError"

\* a reverse table was derived from a table with a repeated value, and a key is lost
C15_KeyLost ==
    /\ pc = "imported"
    /\ ~Injective(forward)
    /\ status = "ok"
    /\ \E e \in Range(forward) : \A r \in Range(reverse) : r.v # e.k
\* the caller's own MVS payload was handed to convert_mvs_params_to_epa
OwnPayloadConverted == hist.to_mvs = "none" /\ Len(hist.calls) >= 1

\* the payload of the first call has an asset with a timeseries and no unit
SeriesWithoutUnit ==
    \E i \in DOMAIN hist.calls[1].before.assets :
        \E e \in Range(hist.calls[1].before.assets[i].v) :
            /\ Has(e.v.fields, TIMESERIES)
            /\ Get(e.v.fields, TIMESERIES).t = "series"
            /\ ~Has(e.v.fields, UNIT)

\* the payload of the first call lacks a group of EPA_PARAM_KEYS or of EPA_ASSET_KEYS
GroupAbsent ==
    \/ \E g \in Range(EPA_PARAM_KEYS) : ~Has(hist.calls[1].before.params, g.k)
    \/ \E g \in Range(EPA_ASSET_KEYS) : ~Has(hist.calls[1].before.assets, g.k)

\* C16: convert_mvs_params_to_epa returns for every MVS payload, also when a group is
\* absent or an asset has a timeseries without a unit; it never raises.
C16_NeverRaises == OwnPayloadConverted => hist.calls[1].status = "ok"

\* payloads with an absent group and payloads with a unit-less timeseries were converted
C16_GapConverted ==
    OwnPayloadConverted /\ (GroupAbsent \/ SeriesWithoutUnit) /\ hist.calls[1].status = "KeyError"
\* two results of convert_mvs_params_to_epa are the same outcome: the same exception, or
\* the same returned epa_dict holding the same
SameOutcome(t, f) ==
    /\ t.err = f.err
    /\ EpaValue(t.heap, [params |-> t.params, assets |-> t.assets])
          = EpaValue(f.heap, [params |-> f.params, assets |-> f.assets])
    /\ t.heap = f.heap

\* C17: on the same mvs_dict, convert_mvs_params_to_epa with verbatim True and with
\* verbatim False end the same way and return equal payloads; the flag only decides
\* whether the missing and extra keys are printed.
C17_VerbatimOnlyPrints ==
    /\ pc = "mvs" =>
          SameOutcome(convert_mvs_params_to_epa(heap, mvs, TRUE),
                      convert_mvs_params_to_epa(heap, mvs, FALSE))
    /\ \A n \in DOMAIN hist.calls :
          hist.calls[n].printed = (hist.calls[n].verbatim /\ hist.calls[n].status = "ok")

\* a verbatim call and a call without verbatim returned
C17_BothWaysCalled ==
    /\ \E n \in ReturnedCalls : hist.calls[n].verbatim /\ hist.calls[n].printed
    /\ \E n \in ReturnedCalls : ~hist.calls[n].verbatim /\ ~hist.calls[n].printed

\* the label is that of an asset kept out of the EPA payload
Synthetic(asset_label) == InLabel("_excess", asset_label) \/ InLabel("_sink", asset_label)

\* the labels of the mapping, in its order, without the synthetic ones
EmittedLabels(entries) == SelectSeq(Keys(entries), LAMBDA k : ~Synthetic(k))

\* C18: for every asset group, the list convert_mvs_params_to_epa returns has one record
\* for each asset that is not synthetic, in the order of the mapping it was given.
C18_OrderOfMappingKept ==
    \A n \in ReturnedCalls :
        \A i \in DOMAIN hist.calls[n].before.assets :
            LET group == hist.calls[n].before.assets[i]
            IN  LabelsOf(ListOf(n, group.k)) = EmittedLabels(group.v)

\* a group with two emitted assets was converted
C18_SeveralAssetsListed ==
    \E n \in ReturnedCalls :
        \E i \in DOMAIN hist.calls[n].before.assets :
            Len(EmittedLabels(hist.calls[n].before.assets[i].v)) >= 2

\* the last call of convert_mvs_params_to_epa returned; report is its report
LastCallReturned ==
    Len(hist.calls) >= 1 /\ hist.calls[Len(hist.calls)].status = "ok"

LastCall == hist.calls[Len(hist.calls)]

\* the name under which a field of an MVS asset is handed to EPA
EpaFieldName(asset_group, k) ==
    IF asset_group = ENERGY_BUSSES /\ k = "Asset_list" THEN "assets"
    ELSE IF Has(MAP_MVS_EPA, k) THEN Get(MAP_MVS_EPA, k)
    ELSE k

\* the unit of the asset goes into its timeseries
UnitGoesInside(fields, k) == k = UNIT /\ Has(fields, TIMESERIES)

\* C19: after convert_mvs_params_to_epa every record has only fields of its group in
\* EPA_ASSET_KEYS, every field taken out of a record is in extra_keys of the group
\* as (label, field), and every field of the group a record lacks is in
\* missing_keys of the group as (label, field).
C19_PrunedAndReported ==
    LastCallReturned =>
        \A i \in DOMAIN LastCall.before.assets :
            LET group == LastCall.before.assets[i]
                declared == Get(EPA_ASSET_KEYS, group.k)
                listed == Get(LastCall.out.assets, Get(MAP_MVS_EPA, group.k))
                extra == Get(report.extra_keys, group.k)
                missing == Get(report.missing_keys, group.k)
            IN  \A b \in Range(listed) :
                    /\ \A e \in Range(b.fields) : InList(declared, e.k)
                    /\ \A e \in Range(Get(group.v, LabelOf(b)).fields) :
                          /\ ~Has(b.fields, EpaFieldName(group.k, e.k))
                          /\ ~UnitGoesInside(Get(group.v, LabelOf(b)).fields, e.k)
                          => InList(extra, <<LabelOf(b), EpaFieldName(group.k, e.k)>>)
                    /\ \A k \in Range(declared) :
                          ~Has(b.fields, k) => InList(missing, <<LabelOf(b), k>>)

\* a record lost a field and lacks a field of its group
C19_FieldPruned ==
    /\ LastCallReturned
    /\ \E i \in DOMAIN report.extra_keys : report.extra_keys[i].v # <<>>
    /\ \E i \in DOMAIN report.missing_keys : report.missing_keys[i].v # <<>>
\* the name under which a field of an MVS parameter group is handed to EPA
EpaParamName(k) == IF Has(MAP_MVS_EPA, k) THEN Get(MAP_MVS_EPA, k) ELSE k

\* the group of the payload value (params: [k, kind, fields])
GroupOf(params, name) == CHOOSE g \in Range(params) : g.k = name

\* the fields of the MVS group that EPA is to get, under their EPA names
Sanctioned(fields, declared, all) ==
    {[k |-> EpaParamName(e.k), v |-> e.v] :
        e \in {f \in Range(fields) : all \/ InList(declared, f.k)}}

\* C20: every parameter group convert_mvs_params_to_epa returns has exactly the fields
\* of the MVS group that EPA_PARAM_KEYS lists for it, under their EPA names and with
\* their values; the constraints group has all the fields of the MVS group.
C20_ParamGroupsPruned ==
    \A n \in ReturnedCalls :
        \A g \in Range(EPA_PARAM_KEYS) :
            LET given == GroupOf(hist.calls[n].before.params, g.k).fields
                got == GroupOf(hist.calls[n].out.params, Get(MAP_MVS_EPA, g.k)).fields
            IN  /\ Range(got) = Sanctioned(given, g.v, g.k = CONSTRAINTS)
                /\ Len(got) = Cardinality(Range(got))

\* a payload whose simulation settings have TIMESTEP and, after it, a field with the EPA
\* name of TIMESTEP was converted, and the returned group has neither
C20_TimestepLost ==
    \E n \in ReturnedCalls :
        /\ Has(GroupOf(hist.calls[n].before.params, SIMULATION_SETTINGS).fields, TIMESTEP)
        /\ Has(GroupOf(hist.calls[n].before.params, SIMULATION_SETTINGS).fields,
               EpaParamName(TIMESTEP))
        /\ ~Has(GroupOf(hist.calls[n].out.params,
                        Get(MAP_MVS_EPA, SIMULATION_SETTINGS)).fields,
                EpaParamName(TIMESTEP))

\* the parameter groups both converters are said to handle
ScalarGroups == {PROJECT_DATA, ECONOMIC_DATA, SIMULATION_SETTINGS, CONSTRAINTS}

\* C21: every group of project data, economic data, simulation settings and constraints
\* that the MVS payload has is in the payload convert_mvs_params_to_epa returns, under
\* its EPA name; so it is for the economic data.
C21_ScalarGroupsBothWays ==
    \A n \in ReturnedCalls :
        \A g \in ScalarGroups :
            Has(hist.calls[n].before.params, g)
                => Has(hist.calls[n].out.params, Get(MAP_MVS_EPA, g))

\* a payload with economic data was converted, and the returned payload has the other
\* three groups and no economic data
C21_EconomicDataDropped ==
    \E n \in ReturnedCalls :
        /\ Has(hist.calls[n].before.params, ECONOMIC_DATA)
        /\ ~Has(hist.calls[n].out.params, Get(MAP_MVS_EPA, ECONOMIC_DATA))
        /\ \A g \in ScalarGroups \ {ECONOMIC_DATA} :
              Has(hist.calls[n].out.params, Get(MAP_MVS_EPA, g))

\* some record of an asset list of the EPA payload has no label
SomeUnlabelled ==
    \E i \in DOMAIN hist.epa_before.assets :
        \E a \in Range(hist.epa_before.assets[i].v) : ~Has(a.fields, LABEL)

\* C22: convert_epa_params_to_mvs returns dict_values or raises MissingParameterError,
\* for every EPA payload; a record without a label, an absent group or a timeseries
\* without a unit raise no other exception.
C22_OnlyMissingParameterErrorRaised ==
    hist.to_mvs # "none" => hist.to_mvs \in {"ok", "MissingParameterError"}

\* a payload with a record that has no label, and no record labelled "timeseries", was
\* handed over, and the call raised KeyError
C22_UnlabelledRaisedKeyError ==
    /\ hist.to_mvs = "KeyError"
    /\ SomeUnlabelled
    /\ \A i \in DOMAIN hist.epa_before.assets :
          \A a \in Range(hist.epa_before.assets[i].v) :
              Has(a.fields, LABEL) => LabelOf(a) # TIMESERIES

\* two fields of the EPA group go by one MVS name
NameClash(fields) ==
    \E i, j \in DOMAIN fields : i # j /\ MvsName(fields[i].k) = MvsName(fields[j].k)

\* C23: for every parameter group of the EPA payload, the group convert_epa_params_to_mvs
\* returns has every field of the EPA group, under its MVS name if MAP_EPA_MVS has the
\* field and under its own name otherwise, with its value, and has no other field.
C23_RenamedOrPassedThrough ==
    Converted =>
        \A g \in Range(hist.epa_before.params) :
            /\ HasReturnedGroup(MvsName(g.k))
            /\ ReturnedGroup(MvsName(g.k)).kind = "dict"
            /\ Range(ReturnedGroup(MvsName(g.k)).fields) = Translated(g.fields)
            /\ Len(ReturnedGroup(MvsName(g.k)).fields) = Len(g.fields)

\* simulation settings with "time_step" and a field that has its MVS name were
\* converted, and the returned group has the value of one of them only
C23_FieldOverwritten ==
    /\ Converted
    /\ \E g \in Range(hist.epa_before.params) :
          /\ g.k = "simulation_settings"
          /\ Has(g.fields, "time_step") /\ Has(g.fields, TIMESTEP)
          /\ Get(g.fields, "time_step") # Get(g.fields, TIMESTEP)
          /\ Get(ReturnedGroup(SIMULATION_SETTINGS).fields, TIMESTEP)
                = Get(g.fields, "time_step")
          /\ Len(ReturnedGroup(SIMULATION_SETTINGS).fields) = Len(g.fields) - 1

\* the comparison found these fields of the simulation settings missing
MissingSettings ==
    IF \E e \in Range(hist.compared) : e.k = SIMULATION_SETTINGS /\ ~e.v.none
    THEN Get(hist.compared, SIMULATION_SETTINGS).fields
    ELSE <<>>

\* OUTPUT_LP_FILE and at least one more field of the simulation settings are missing
OutputLpFileAmongGaps ==
    /\ hist.to_mvs # "none"
    /\ InList(MissingSettings, OUTPUT_LP_FILE)
    /\ Len(MissingSettings) >= 2

\* from line i on, the message has the group and then one line for each of the fields
ListsGroup(lines, i, group, fields) ==
    /\ lines[i] = GroupLine(group)
    /\ i + Len(fields) <= Len(lines)
    /\ \A j \in DOMAIN fields : lines[i + j] = ParameterLine(fields[j])

\* C24: when OUTPUT_LP_FILE is missing together with another field of the simulation
\* settings, convert_epa_params_to_mvs puts no default in, raises MissingParameterError,
\* and the message lists the simulation settings with every missing field, the
\* OUTPUT_LP_FILE among them.
C24_NoDefaultAmongOtherGaps ==
    OutputLpFileAmongGaps =>
        /\ hist.to_mvs = "MissingParameterError"
        /\ hist.returned = NoPayload
        /\ \A g \in Range(hist.epa_after.params) :
              g.k = "simulation_settings" => ~Has(g.fields, OUTPUT_LP_FILE)
        /\ \E i \in DOMAIN msg : ListsGroup(msg, i, SIMULATION_SETTINGS, MissingSettings)

\* simulation settings that are there, without OUTPUT_LP_FILE and without another
\* required field, were handed over
C24_SeveralSettingsMissing ==
    /\ OutputLpFileAmongGaps
    /\ \E g \in Range(hist.epa_before.params) : g.k = "simulation_settings"
    /\ hist.to_mvs = "MissingParameterError"

\* the entries of the MVS asset group that have an Asset_list mapping and are handed on
WithAssetList(entries) ==
    {e \in Range(entries) :
        /\ ~Synthetic(e.k)
        /\ Has(e.v.fields, "Asset_list")
        /\ Get(e.v.fields, "Asset_list").t = "mapping"}

\* C25: the record convert_mvs_params_to_epa returns for a bus whose Asset_list is a
\* mapping has the field `assets`, the list of the keys of the mapping in its order,
\* and no Asset_list; in the other asset groups an Asset_list is not made into `assets`:
\* it is taken out as an extra key under its own name.
C25_BusAssetListFlattened ==
    \A n \in ReturnedCalls :
        \A i \in DOMAIN hist.calls[n].before.assets :
            LET group == hist.calls[n].before.assets[i]
            IN  \A e \in WithAssetList(group.v) :
                    LET b == RecordOf(ListOf(n, group.k), e.k)
                    IN  /\ ~Has(b.fields, "Asset_list")
                        /\ group.k = ENERGY_BUSSES =>
                              /\ Has(b.fields, "assets")
                              /\ Get(b.fields, "assets")
                                    = StrList(Get(e.v.fields, "Asset_list").ks)
                        /\ group.k # ENERGY_BUSSES =>
                              /\ ~Has(b.fields, "assets")
                              /\ n = Len(hist.calls) =>
                                    /\ InList(Get(report.extra_keys, group.k),
                                              <<e.k, "Asset_list">>)
                                    /\ ~InList(Get(report.extra_keys, group.k),
                                               <<e.k, "assets">>)

\* a bus with an Asset_list and an asset of another group with an Asset_list were
\* converted
C25_BusConverted ==
    \E n \in ReturnedCalls :
        /\ WithAssetList(Get(hist.calls[n].before.assets, ENERGY_BUSSES)) # {}
        /\ \E i \in DOMAIN hist.calls[n].before.assets :
              /\ hist.calls[n].before.assets[i].k # ENERGY_BUSSES
              /\ WithAssetList(hist.calls[n].before.assets[i].v) # {}

\* no pair occurs twice in the list
NoRepeat(list) == \A i, j \in DOMAIN list : list[i] = list[j] => i = j

\* C26: in the missing keys convert_mvs_params_to_epa finds, no (label, field) occurs
\* twice in the list of an asset group.
C26_MissingKeysListedOnce ==
    LastCallReturned =>
        \A i \in DOMAIN report.missing_keys : NoRepeat(report.missing_keys[i].v)

\* a production asset without OUTFLOW_DIRECTION was converted, and the missing keys of
\* the group have (label, OUTFLOW_DIRECTION) twice
C26_OutflowDirectionListedTwice ==
    /\ LastCallReturned
    /\ \E b \in Range(Get(LastCall.out.assets, Get(MAP_MVS_EPA, ENERGY_PRODUCTION))) :
          /\ ~Has(b.fields, OUTFLOW_DIRECTION)
          /\ Cardinality({j \in DOMAIN Get(report.missing_keys, ENERGY_PRODUCTION) :
                Get(report.missing_keys, ENERGY_PRODUCTION)[j]
                   = <<LabelOf(b), OUTFLOW_DIRECTION>>}) = 2

\* the label ends with the part
EndsWith(asset_label, part) ==
    LabelParts(asset_label)[Len(LabelParts(asset_label))] = part

\* C27: every asset whose label does not end with "_excess" or "_sink" has a record in
\* the list convert_mvs_params_to_epa returns for its group, also when the label has
\* "_sink" or "_excess" in the middle.
C27_OnlySuffixTaggedExcluded ==
    \A n \in ReturnedCalls :
        \A i \in DOMAIN hist.calls[n].before.assets :
            LET group == hist.calls[n].before.assets[i]
            IN  \A e \in Range(group.v) :
                    ~EndsWith(e.k, "_excess") /\ ~EndsWith(e.k, "_sink")
                        => InList(LabelsOf(ListOf(n, group.k)), e.k)

\* an asset with "_sink" in the middle of its label was converted and has no record
C27_InfixTaggedExcluded ==
    \E n \in ReturnedCalls :
        \E i \in DOMAIN hist.calls[n].before.assets :
            LET group == hist.calls[n].before.assets[i]
            IN  \E e \in Range(group.v) :
                    /\ InLabel("_sink", e.k)
                    /\ ~EndsWith(e.k, "_sink")
                    /\ ~InList(LabelsOf(ListOf(n, group.k)), e.k)

\* the renaming loop leaves the dict with as many fields as it had
KeepsFieldCount(dict, table) == Len(RenameKeys(dict, Keys(dict), table)) = Len(dict)

\* the dict objects of the records of an asset group of the EPA payload (a list)
EpaRecords(list) == {heap[list[j].ref] : j \in {n \in DOMAIN list : list[n].kind = "asset"}}

\* the records of an asset group of the MVS payload (a mapping), each with its label
\* put in, as the renaming loop of convert_mvs_params_to_epa finds them
MvsRecords(entries) ==
    {Put(heap[e.v.ref], LABEL, Str(e.k)) : e \in {x \in Range(entries) : x.v.kind = "asset"}}

\* C28: the renaming loop of convert_epa_params_to_mvs, on every parameter group and
\* every asset record of the EPA payload, and the renaming loop of
\* convert_mvs_params_to_epa, on every asset record of the MVS payload, give a record
\* with as many fields as the record had.
C28_RenamingLosesNoField ==
    /\ pc = "epa" =>
          /\ \A g \in Range(epa.params) :
                g.v.kind = "dict" => KeepsFieldCount(heap[g.v.ref], MAP_EPA_MVS)
          /\ \A i \in DOMAIN epa.assets :
                \A record \in EpaRecords(epa.assets[i].v) :
                    KeepsFieldCount(record, MAP_EPA_MVS)
    /\ pc = "mvs" =>
          \A i \in DOMAIN mvs.assets :
              \A record \in MvsRecords(mvs.assets[i].v) :
                  KeepsFieldCount(record, MAP_MVS_EPA)

\* simulation settings with "time_step" and with the MVS name of it were converted,
\* nothing was missing, and the group has one field less than it had
C28_FieldLostInGroup ==
    /\ Converted
    /\ hist.compared = <<>>
    /\ \E g \in Range(hist.epa_before.params) :
          /\ g.k = "simulation_settings"
          /\ Has(g.fields, "time_step") /\ Has(g.fields, MvsName("time_step"))
          /\ \E r \in Range(hist.epa_after.params) :
                r.k = g.k /\ Len(r.fields) = Len(g.fields) - 1

\* the words get_user_input takes for an option
OptionWords == {"-f", "-debug", "-info", "-warnings", "-errors", "True", "False"}

\* get_user_input was called with an input file, an output folder and at most one
\* option on the command line, and read the command line
StartedWithPaths ==
    /\ user_input.called
    /\ ~user_input.test
    /\ \/ Len(argv) = 3
       \/ Len(argv) = 4 /\ argv[4] \in OptionWords

\* C29: started with an input file and an output folder, and with one option or none,
\* get_user_input takes both paths from the command line, takes the option ("-f" makes
\* overwrite true), and gets to the checks of the directories: scanning the arguments
\* raises no IndexError.
C29_ArgumentsScanned ==
    StartedWithPaths =>
        /\ status # "IndexError"
        /\ user_input.reached # "arguments"
        /\ user_input.path_input_file = argv[2]
        /\ user_input.path_output_folder = argv[3]
        /\ Len(argv) = 4 /\ argv[4] = "-f" => user_input.overwrite

\* get_user_input was started with both paths, and with both paths and "-f"; it read
\* the paths, and "-f", and ended with IndexError while scanning
C29_IndexErrorRaised ==
    /\ StartedWithPaths
    /\ status = "IndexError"
    /\ user_input.reached = "arguments"
    /\ user_input.path_input_file = argv[2]
    /\ user_input.path_output_folder = argv[3]
    /\ Len(argv) = 4 /\ argv[4] = "-f" /\ user_input.overwrite

\* check_output_directory found the folder, was passed overwrite False, asked, and the
\* user answered yes
OverwriteConfirmed ==
    /\ output_check.called
    /\ output_check.existed
    /\ ~output_check.overwrite
    /\ output_check.asked
    /\ output_check.user_reply \in {"y", "Y", "yes", "Yes"}

\* C30: when the output folder is there, overwrite is False and the user answers the
\* question with yes, check_output_directory returns with the folder removed and made
\* again, empty, as it does when overwrite is True.
C30_ConfirmedFolderRecreated ==
    OverwriteConfirmed =>
        /\ output_check.err = ""
        /\ output_check.after = [exists |-> TRUE, entries |-> {}]

\* the user answered yes, check_output_directory returned, and the folder has what it
\* had
C30_ConfirmedFolderLeft ==
    /\ OverwriteConfirmed
    /\ output_check.err = ""
    /\ output_check.entries # {}
    /\ output_check.after = [exists |-> TRUE, entries |-> output_check.entries]
====
